---- MODULE Spec2Model ----
(***************************************************************************)
(* A model of the stengel notebooks: the PitchData container they drive,   *)
(* the prep / split / normalise cells of the model-training notebooks and  *)
(* the render-compression and quantile cells of the density notebook.      *)
(*                                                                         *)
(* Conventions.  Python indices and ids are 0-based and are kept 0-based;  *)
(* TLA+ sequences are 1-based, so element k of a Python list l is l[k+1].  *)
(* Every cell of a per-row column carries, next to its value v, the index  *)
(* o of the pitch of the pickled file it was read from.  The program never *)
(* reads o: it is there so that row alignment can be stated.               *)
(***************************************************************************)
EXTENDS Integers, Sequences, FiniteSets, TLC

(***************************************************************************)
(* Bounds of the model.                                                    *)
(***************************************************************************)
\* Pickled files of up to MaxRows pitches vary in pitcher and null pattern.
MaxRows == 5
\* Longer files, up to MaxObs pitches, are one pitcher's and have no nulls.
MaxObs == 10
\* The notebooks keep the pitchers with more than 3000 pitches; the model
\* keeps the comparison and scales the count down.
HighCount == 1

PitcherNames == {"p1", "p2"}

None == [kind |-> "None"]

(***************************************************************************)
(* Small helpers standing for Python / numpy list operations.              *)
(***************************************************************************)
Range(s) == {s[i] : i \in DOMAIN s}

\* The elements of a finite set of integers in ascending order.
RECURSIVE SortedSeq(_)
SortedSeq(S) ==
  IF S = {} THEN <<>>
  ELSE LET m == CHOOSE x \in S : \A y \in S : x <= y
       IN <<m>> \o SortedSeq(S \ {m})

\* The distinct elements of a list in order of first appearance.
RECURSIVE Unique(_)
Unique(s) ==
  IF s = <<>> THEN <<>>
  ELSE LET r == Unique(SubSeq(s, 1, Len(s) - 1))
           x == s[Len(s)]
       IN IF x \in Range(r) THEN r ELSE Append(r, x)

\* list.index(x), 0-based.
IndexOf(list, x) == (CHOOSE i \in 1..Len(list) : list[i] = x) - 1

\* np.array(range(a, b)): the indices a, a+1, ..., b-1.
PyRange(a, b) == [k \in 1..(IF b > a THEN b - a ELSE 0) |-> a + k - 1]

RECURSIVE SumSeq(_)
SumSeq(s) == IF s = <<>> THEN 0 ELSE s[1] + SumSeq(Tail(s))

(***************************************************************************)
(* PitchData (stengel.model.pitch_data).  The class is not among the       *)
(* source files; it is modelled from the data model of the specification   *)
(* and from the way the notebooks call it.                                 *)
(***************************************************************************)

\* PitchData.from_dict: one row per pitch of the pickled dictionary; pitcher
\* and batter names become integer ids into the pitchers / batters lists.
FromDict(d) ==
  LET pitchers == Unique([i \in 1..Len(d) |-> d[i].pitcher])
      batters == Unique([i \in 1..Len(d) |-> d[i].batter])
  IN [kind |-> "PitchData",
      pitch_data |-> [i \in 1..Len(d) |-> [o |-> i, nan |-> d[i].null, v |-> d[i].feat]],
      pitch_outcomes |-> [i \in 1..Len(d) |-> [o |-> i, v |-> d[i].outcome]],
      pitcher_ids |-> [i \in 1..Len(d) |-> [o |-> i, v |-> IndexOf(pitchers, d[i].pitcher)]],
      batter_ids |-> [i \in 1..Len(d) |-> [o |-> i, v |-> IndexOf(batters, d[i].batter)]],
      pitchers |-> pitchers,
      batters |-> batters,
      pitch_density |-> None,
      shuffle_each_epoch |-> TRUE]

\* PitchData.num_observations
NumObservations(self) == Len(self.pitch_data)

\* The ids that occur in an id column.
IdsUsed(col) == {col[k].v : k \in DOMAIN col}

\* An id column renumbered to the positions of its ids among those kept.
Renumber(col, kept) ==
  [k \in DOMAIN col |-> [col[k] EXCEPT !.v = Cardinality({j \in kept : j < col[k].v})]]

\* The names of a list whose ids are kept, in the list's order.
KeepNames(names, kept) ==
  LET ids == SortedSeq(kept) IN [k \in 1..Len(ids) |-> names[ids[k] + 1]]

\* The PitchData built by filter_rows: the given rows of every column, in the
\* given order.  With reassign_ids the pitchers / batters lists shrink to the
\* names that still have a row and the ids are renumbered; without, lists and
\* ids are those of the receiver.
FilterRowsData(self, rows, reassign_ids) ==
  LET take(col) == [k \in 1..Len(rows) |-> col[rows[k] + 1]]
      pids == take(self.pitcher_ids)
      bids == take(self.batter_ids)
  IN [kind |-> "PitchData",
      pitch_data |-> take(self.pitch_data),
      pitch_outcomes |-> take(self.pitch_outcomes),
      pitcher_ids |-> IF reassign_ids THEN Renumber(pids, IdsUsed(pids)) ELSE pids,
      batter_ids |-> IF reassign_ids THEN Renumber(bids, IdsUsed(bids)) ELSE bids,
      pitchers |-> IF reassign_ids THEN KeepNames(self.pitchers, IdsUsed(pids))
                   ELSE self.pitchers,
      batters |-> IF reassign_ids THEN KeepNames(self.batters, IdsUsed(bids))
                  ELSE self.batters,
      pitch_density |-> self.pitch_density,
      shuffle_each_epoch |-> self.shuffle_each_epoch]

\* in_place defaulting to True.
InPlaceDefault_True == TRUE

\* The value of in_place when a call does not pass it.
InPlaceDefault == FALSE

\* A filter method that returns the PitchData it built and makes the receiver
\* it as well.
Deliver_Both(self, new, in_place) ==
  IF in_place THEN [self |-> new, ret |-> None] ELSE [self |-> new, ret |-> new]

\* What a filter method does with the PitchData it built: with in_place=True
\* the receiver becomes it, otherwise (the default) the receiver is left alone
\* and the new object is returned.
Deliver(self, new, in_place) ==
  IF in_place THEN [self |-> new, ret |-> None] ELSE [self |-> self, ret |-> new]

\* PitchData.filter_rows(rows, in_place=False, reassign_ids=True)
FilterRows(self, rows, in_place, reassign_ids) ==
  Deliver(self, FilterRowsData(self, rows, reassign_ids), in_place)

\* The rows a boolean mask selects (the 0-based indices of its true entries,
\* ascending).
MaskRows(mask) == SortedSeq({j - 1 : j \in {i \in DOMAIN mask : mask[i]}})

\* PitchData.filter_nulls(in_place=False): the rows without a missing value.
FilterNulls(self, in_place) ==
  LET mask == [j \in 1..NumObservations(self) |-> ~self.pitch_data[j].nan]
  IN Deliver(self, FilterRowsData(self, MaskRows(mask), TRUE), in_place)

\* PitchData.filter_by_pitcher_id(ids, in_place=False): the rows of the
\* pitchers whose ids are listed.
FilterByPitcherId(self, ids, in_place) ==
  LET mask == [j \in 1..NumObservations(self) |-> self.pitcher_ids[j].v \in Range(ids)]
  IN Deliver(self, FilterRowsData(self, MaskRows(mask), TRUE), in_place)

\* PitchData.pitches_per_pitcher(): entry id is the number of rows of pitcher id.
PitchesPerPitcher(self) ==
  [k \in 1..Len(self.pitchers) |->
     Cardinality({j \in 1..NumObservations(self) : self.pitcher_ids[j].v = k - 1})]

\* The permutation a seeded shuffle of n rows applies: row k of the result is
\* row perm[k] of the receiver.  It is a function of the seed and of n alone;
\* which one the generator yields is not known, so it is drawn once, at the
\* start, from the rotations of 1..n and their reversals.
PermOf(r, n) ==
  [k \in 1..n |-> LET j == ((k - 1 + r.rot) % n) + 1 IN IF r.rev THEN n + 1 - j ELSE j]

\* A shuffle that permutes the features and outcomes and forgets the id columns.
Shuffle_IdsLeftBehind(self, gen, seed) ==
  LET perm == PermOf(gen[seed], NumObservations(self))
      mix(col) == [k \in 1..Len(col) |-> col[perm[k]]]
  IN [self EXCEPT !.pitch_data = mix(self.pitch_data),
                  !.pitch_outcomes = mix(self.pitch_outcomes)]

\* PitchData.shuffle(seed): every per-row column permuted, in place, by the
\* same permutation.
Shuffle(self, gen, seed) ==
  LET perm == PermOf(gen[seed], NumObservations(self))
      mix(col) == [k \in 1..Len(col) |-> col[perm[k]]]
  IN [self EXCEPT !.pitch_data = mix(self.pitch_data),
                  !.pitch_outcomes = mix(self.pitch_outcomes),
                  !.pitcher_ids = mix(self.pitcher_ids),
                  !.batter_ids = mix(self.batter_ids)]

(***************************************************************************)
(* sklearn.preprocessing.StandardScaler, in exact arithmetic.  A fitted    *)
(* scaler is kept as the sufficient statistics of the rows it was fit on:  *)
(* per column c, mean = sum[c]/n and variance = (n*sumsq[c] - sum[c]^2) /  *)
(* n^2.  A transformed value (x - mean)/sqrt(variance) is kept as the pair *)
(* num = n*x - sum[c], den2 = n*sumsq[c] - sum[c]^2, standing for          *)
(* num/sqrt(den2) (for den2 = 0 the scaler divides by 1: num/n).           *)
(***************************************************************************)
NotFitted == [kind |-> "NotFitted"]

StandardScalerFit(X) ==
  LET cols == DOMAIN X[1].v
  IN [kind |-> "Fitted",
      n |-> Len(X),
      sum |-> [c \in cols |-> SumSeq([i \in 1..Len(X) |-> X[i].v[c]])],
      sumsq |-> [c \in cols |-> SumSeq([i \in 1..Len(X) |-> X[i].v[c] * X[i].v[c]])]]

Scaled(s, c, x) ==
  [num |-> s.n * x - s.sum[c], den2 |-> s.n * s.sumsq[c] - s.sum[c] * s.sum[c], n |-> s.n]

\* scaler.transform(X): every row scaled, the order of the rows kept.
StandardScalerTransform(s, X) ==
  [i \in 1..Len(X) |-> [X[i] EXCEPT !.v = [c \in DOMAIN X[i].v |-> Scaled(s, c, X[i].v[c])]]]

(***************************************************************************)
(* The state of a notebook run.                                            *)
(***************************************************************************)
VARIABLES
  raw,                \* the pickled pitch dictionary, one record per pitch
  gen,                \* the shuffle generator: seed -> the permutation it yields
  compressed_density, \* compressed_renders.p: pitcher name -> compressed render
  pc,                 \* the cell the run is about to execute
  pitch_data,         \* the PitchData bound to pitch_data
  train_indices, valid_indices, test_indices,
  train_data, valid_data, test_data,
  scaler,             \* the StandardScaler of the split cell
  alt_scaler,         \* the scaler of a second run, see AltMatrix
  ret,                \* what the last PitchData method call returned
  last,               \* the last PitchData method call: its name, its in_place
                      \* argument, the data it built
  kde,                \* what PitchDensityEstimator.render yields per pitcher
  high_pitch_data,    \* the density notebook's high-volume PitchData
  density_data,       \* pitcher name -> its train / test density matrices
  pitcher_density_renders, \* pitcher name -> rendered voxel grid
  render_minima,      \* the voxel-wise minimum over the renders
  render_maxima,      \* the voxel-wise maximum over the renders
  retained_voxels,    \* the flat boolean mask of the voxels kept
  compressed_renders, \* pitcher name -> compressed render
  pitcher_quantiles,  \* pitcher name -> quantile summary
  models,             \* model variable -> the PitchOutcomeModel bound to it
  train_args,         \* the train_steps and print_every the train calls pass
  log_from,           \* PitchOutcomeModel: the number of the first batch
  checkpoints,        \* checkpoint path -> what was last saved there
  save_calls,         \* the save calls made so far, in order
  cell,               \* the model cell the run is at, and where in it
  predictions,        \* model variable -> its predictions on test_data
  combined_scores,    \* per test pitch, the five models' scores of its outcome
  alt_scores,         \* combined_scores of a second run, see AltScores
  bootstrap_draws,    \* the index vectors drawn so far, one per replicate
  bootstrapped_scores, \* per replicate, the five models' perplexities
  alt_bootstrapped,   \* bootstrapped_scores of the second run
  test_scores,        \* per model, the perplexity model.score(test_data) printed
  stored_density,     \* density_renders.p and pitcher_quantiles.p as loaded
  density_arrays,     \* the full, compressed and quantile density arrays
  eval_calls,         \* the evaluate_parameters calls that returned, in order
  run,                \* the number of the notebook run (kernel) under way
  eval_results,       \* a dictionary of evaluation runs, in insertion order
  summary             \* the rows print_summary printed for it

vars == <<raw, gen, compressed_density, pc, pitch_data,
          train_indices, valid_indices, test_indices,
          train_data, valid_data, test_data, scaler, alt_scaler, ret, last,
          kde, high_pitch_data, density_data, pitcher_density_renders,
          render_minima, render_maxima, retained_voxels, compressed_renders, pitcher_quantiles,
          models, train_args, log_from, checkpoints, save_calls, cell,
          predictions, combined_scores, alt_scores, bootstrap_draws,
          bootstrapped_scores, alt_bootstrapped, test_scores,
          stored_density, density_arrays, eval_calls, run, eval_results, summary>>

\* The variables of the model cells.
modelVars == <<models, train_args, log_from, checkpoints, save_calls, cell>>

\* The variables of the prediction and bootstrap cells.
bootVars == <<predictions, combined_scores, alt_scores, bootstrap_draws,
              bootstrapped_scores, alt_bootstrapped, test_scores>>

\* The variables of the evaluation notebook.
evalVars == <<stored_density, density_arrays, eval_calls, run, eval_results, summary>>

\* The variables of the cells that follow the split.
laterVars == <<modelVars, bootVars, evalVars>>

\* The variables of the density notebook.
kdeVars == <<kde, high_pitch_data, density_data, pitcher_density_renders,
             render_minima, render_maxima, retained_voxels, compressed_renders, pitcher_quantiles>>

\* The variables of the split and normalise cells.
trainVars == <<compressed_density, train_indices, valid_indices, test_indices,
               train_data, valid_data, test_data, scaler, alt_scaler>>

\* The variables the training notebooks' cells never touch.
offstage == <<ret, last, kdeVars, laterVars>>

NoCall == [op |-> "none"]

\* The seed of the final-model notebook's shuffle.
FinalSeed == 31415

(***************************************************************************)
(* The pickled inputs the runs start from.                                 *)
(***************************************************************************)
BatterOf(o) == IF o % 2 = 1 THEN "b1" ELSE "b2"
\* PitchData.variable_names, shortened: the columns of the feature matrix.
VariableNames == <<"start_speed", "velocity_y", "accel_x", "accel_y", "accel_z">>

FeatureOf(o) == <<o % 2, o % 3, (2 * o) % 3, (o * o) % 5, (o + 1) % 4>>
OutcomeOf(o) == (o \div 2) % 2

\* The pitch dictionaries of n pitches: short ones vary in who pitched each
\* pitch and in which pitches have a missing value, long ones are one
\* pitcher's without missing values.
RawFiles(n) ==
  LET choices == IF n <= MaxRows THEN PitcherNames \X BOOLEAN ELSE {<<"p1", FALSE>>}
  IN {[o \in 1..n |-> [pitcher |-> f[o][1], batter |-> BatterOf(o), null |-> f[o][2],
                       feat |-> FeatureOf(o), outcome |-> OutcomeOf(o)]] :
        f \in {g \in [1..n -> choices] : n > 0 => g[1][1] = "p1"}}

Generators(n) == [rot : 0..(IF n > 1 THEN n - 1 ELSE 0), rev : BOOLEAN]

\* The compressed render stored for a pitcher (a flat vector), tagged with
\* the name it is stored under.
StoredRender(name) ==
  [name |-> name, vec |-> IF name = "p1" THEN <<3, 0>> ELSE <<1, 4>>]

\* A second run of the same notebook on a file that differs from raw in the
\* feature value of pitch 1 only.  Rows are selected and ordered without
\* reading feature values, so its matrices hold the same pitches in the same
\* order: AltMatrix(X) is its matrix where the first run has X.
AltMatrix(X) ==
  [i \in 1..Len(X) |->
     IF X[i].o = 1 THEN [X[i] EXCEPT !.v = [c \in DOMAIN X[i].v |-> X[i].v[c] + 1]]
     ELSE X[i]]

\* A fixed answer of the density estimator, for the runs that do not vary it.
PlainKernel ==
  [name \in PitcherNames |->
     [peak |-> IF name = "p1" THEN <<0, 0, 0>> ELSE <<0, 0, 1>>, wide |-> name = "p1", top |-> 5]]

\* The density notebook's variables before the notebook has run.
KdeEmpty ==
  /\ high_pitch_data = None
  /\ density_data = <<>>
  /\ pitcher_density_renders = <<>>
  /\ render_minima = None
  /\ render_maxima = None
  /\ retained_voxels = <<>>
  /\ compressed_renders = <<>>
  /\ pitcher_quantiles = <<>>

KdeIdle == kde = PlainKernel /\ KdeEmpty

\* The training notebooks' variables before the split.
TrainIdle ==
  /\ compressed_density = [name \in PitcherNames |-> StoredRender(name)]
  /\ train_indices = <<>> /\ valid_indices = <<>> /\ test_indices = <<>>
  /\ train_data = None /\ valid_data = None /\ test_data = None
  /\ scaler = NotFitted /\ alt_scaler = NotFitted

\* The model variables of the final-model notebook, in the order of its cells.
ModelNames == <<"logistic", "single_hidden", "embedding", "density_direct", "density">>

\* A variable no cell has assigned yet.
Unbound == [kind |-> "unbound"]

\* The model cells' variables before the first model cell.
ModelsIdle ==
  /\ models = [name \in Range(ModelNames) |-> Unbound]
  /\ checkpoints = <<>>
  /\ save_calls = <<>>
  /\ cell = [k |-> 1, at |-> "build"]

\* The prediction and bootstrap cells' variables before those cells.
BootIdle ==
  /\ predictions = <<>>
  /\ combined_scores = <<>>
  /\ alt_scores = <<>>
  /\ bootstrap_draws = <<>>
  /\ bootstrapped_scores = <<>>
  /\ alt_bootstrapped = <<>>
  /\ test_scores = <<>>

\* The evaluation notebook's variables in the runs of the other notebooks.
EvalIdle ==
  /\ stored_density = None
  /\ density_arrays = None
  /\ eval_calls = <<>>
  /\ run = 1
  /\ eval_results = <<>>
  /\ summary = None

\* The variables of the later cells in the runs that stop before them.
LaterIdle ==
  /\ ModelsIdle
  /\ BootIdle
  /\ EvalIdle
  /\ train_args = [short |-> 0, long |-> 0, every |-> 1]
  /\ log_from = 0

Init ==
  /\ \E n \in 0..MaxObs :
       /\ raw \in RawFiles(n)
       /\ gen \in [{FinalSeed} -> Generators(n)]
  /\ pc = "prep_data"
  /\ pitch_data = FromDict(raw)
  /\ TrainIdle
  /\ KdeIdle
  /\ ret = None /\ last = NoCall
  /\ LaterIdle

(***************************************************************************)
(* The cells of the final-model notebook.                                  *)
(***************************************************************************)

\* The comparison written >= instead of >.
HighCountPitchers_AtLeast(pitch_counts) ==
  SortedSeq({i - 1 : i \in {k \in DOMAIN pitch_counts : pitch_counts[k] >= HighCount}})

\* [i for i, pc in enumerate(pitch_counts) if pc > 3000]
HighCountPitchers(pitch_counts) ==
  SortedSeq({i - 1 : i \in {k \in DOMAIN pitch_counts : pitch_counts[k] > HighCount}})

\* "Prep the main pitch data": drop the rows with missing values, then keep
\* the pitchers with a high pitch count.
PrepMainData(pd) ==
  LET nonnull == FilterNulls(pd, TRUE).self
      pitch_counts == PitchesPerPitcher(nonnull)
      high_count_pitchers == HighCountPitchers(pitch_counts)
  IN FilterByPitcherId(nonnull, high_count_pitchers, TRUE).self

CellPrepData ==
  /\ pc = "prep_data"
  /\ pitch_data' = PrepMainData(pitch_data)
  /\ pc' = "prep_density"
  /\ UNCHANGED <<raw, gen, compressed_density, train_indices, valid_indices, test_indices,
                 train_data, valid_data, test_data, scaler, alt_scaler>>
  /\ UNCHANGED offstage

\* The array built from the dictionary's own listing of its values.
DensityArray_DictOrder(density, pitchers) ==
  LET keys == <<"p2", "p1">>
      rows == [i \in 1..Len(keys) |-> density[keys[i]]]
      cnt == SumSeq([i \in 1..Len(rows) |-> Len(rows[i].vec)])
      total == SumSeq([i \in 1..Len(rows) |-> SumSeq(rows[i].vec)])
  IN [i \in 1..Len(rows) |->
        [name |-> rows[i].name,
         vec |-> [k \in 1..Len(rows[i].vec) |->
                    [num |-> cnt * rows[i].vec[k] - total, den |-> cnt]]]]

\* np.array([density[name].reshape([-1]) for name in pitchers]) minus its
\* overall mean: row i is the stored vector of pitchers[i].  With cnt entries
\* summing to total, the centred entry x - total/cnt is kept as the fraction
\* (cnt*x - total)/cnt.
DensityArray(density, pitchers) ==
  LET rows == [i \in 1..Len(pitchers) |-> density[pitchers[i]]]
      cnt == SumSeq([i \in 1..Len(rows) |-> Len(rows[i].vec)])
      total == SumSeq([i \in 1..Len(rows) |-> SumSeq(rows[i].vec)])
  IN [i \in 1..Len(rows) |->
        [name |-> rows[i].name,
         vec |-> [k \in 1..Len(rows[i].vec) |->
                    [num |-> cnt * rows[i].vec[k] - total, den |-> cnt]]]]

\* "Prep the density array"
CellPrepDensity ==
  /\ pc = "prep_density"
  /\ pitch_data' = [pitch_data EXCEPT
                      !.pitch_density = DensityArray(compressed_density, pitch_data.pitchers)]
  /\ pc' = "split"
  /\ UNCHANGED <<raw, gen, compressed_density, train_indices, valid_indices, test_indices,
                 train_data, valid_data, test_data, scaler, alt_scaler>>
  /\ UNCHANGED offstage

\* round(0.6 * n) where the cell truncates.
TrainObs_Rounded(n) == (6 * n + 5) \div 10

\* int(0.6 * n) and int(0.2 * n).  The doubles nearest 0.6 and 0.2 are off by
\* less than 4e-17 relative, so for every n a data set can have the rounded
\* product truncates to floor(6n/10), resp. floor(2n/10).
TrainObs(n) == (6 * n) \div 10
ValidObs(n) == (2 * n) \div 10

\* The test indices started at valid_obs, the training rows forgotten.
TestIndices_FromValidObs(n) == PyRange(ValidObs(n), n)

\* "Get indices for train, validation, and test sets"
TrainIndices(n) == PyRange(0, TrainObs(n))
ValidIndices(n) == PyRange(TrainObs(n), TrainObs(n) + ValidObs(n))
TestIndices(n) == PyRange(TrainObs(n) + ValidObs(n), n)

\* filter_rows called without reassign_ids=False.
SplitOff_ReassignIds(pd, rows) == FilterRows(pd, rows, InPlaceDefault, TRUE).ret

\* The three filter_rows calls of the split, on the shuffled data.
SplitOff(pd, rows) == FilterRows(pd, rows, InPlaceDefault, FALSE).ret

\* A split whose shuffle_each_epoch is left as the constructor set it.
WithoutEpochShuffle_Kept(data) == data

\* data.shuffle_each_epoch = False
WithoutEpochShuffle(data) == [data EXCEPT !.shuffle_each_epoch = FALSE]

\* The split cell up to the scaler: indices, shuffle, the three splits, and
\* shuffle_each_epoch switched off on validation and test.
CellSplit ==
  /\ pc = "split"
  /\ LET n == NumObservations(pitch_data)
         shuffled == Shuffle(pitch_data, gen, FinalSeed)
     IN /\ train_indices' = TrainIndices(n)
        /\ valid_indices' = ValidIndices(n)
        /\ test_indices' = TestIndices(n)
        /\ pitch_data' = shuffled
        /\ train_data' = SplitOff(shuffled, train_indices')
        /\ valid_data' = WithoutEpochShuffle(SplitOff(shuffled, valid_indices'))
        /\ test_data' = WithoutEpochShuffle(SplitOff(shuffled, test_indices'))
  /\ pc' = "normalize"
  /\ UNCHANGED <<raw, gen, compressed_density, scaler, alt_scaler>>
  /\ UNCHANGED offstage

\* The scaler fit on every row of the data set.
FitArgument_AllRows(train, valid, test) ==
  train.pitch_data \o valid.pitch_data \o test.pitch_data

\* The matrix the scaler is fit on: scaler.fit(train_data.pitch_data).
FitArgument(train, valid, test) == train.pitch_data

\* "Normalize the data according to the training data distributions".
\* StandardScaler.fit and .transform raise ValueError on a matrix without
\* rows; the cell then stops where it is, with what it has assigned so far.
CellNormalize ==
  /\ pc = "normalize"
  /\ LET X == FitArgument(train_data, valid_data, test_data)
     IN IF Len(X) = 0
        THEN /\ pc' = "error"
             /\ UNCHANGED <<scaler, alt_scaler, train_data, valid_data, test_data>>
        ELSE LET s == StandardScalerFit(X)
             IN /\ scaler' = s
                /\ alt_scaler' = StandardScalerFit(AltMatrix(X))
                /\ IF Len(train_data.pitch_data) = 0
                   THEN /\ pc' = "error"
                        /\ UNCHANGED <<train_data, valid_data, test_data>>
                   ELSE /\ train_data' = [train_data EXCEPT
                             !.pitch_data = StandardScalerTransform(s, train_data.pitch_data)]
                        /\ IF Len(valid_data.pitch_data) = 0
                           THEN /\ pc' = "error"
                                /\ UNCHANGED <<valid_data, test_data>>
                           ELSE /\ valid_data' = [valid_data EXCEPT
                                     !.pitch_data = StandardScalerTransform(s, valid_data.pitch_data)]
                                /\ IF Len(test_data.pitch_data) = 0
                                   THEN /\ pc' = "error"
                                        /\ UNCHANGED test_data
                                   ELSE /\ test_data' = [test_data EXCEPT
                                             !.pitch_data = StandardScalerTransform(s, test_data.pitch_data)]
                                        /\ pc' = "done"
  /\ UNCHANGED <<raw, gen, compressed_density, pitch_data,
                 train_indices, valid_indices, test_indices>>
  /\ UNCHANGED offstage

Next ==
  \/ CellPrepData
  \/ CellPrepDensity
  \/ CellSplit
  \/ CellNormalize

Spec == Init /\ [][Next]_vars

(***************************************************************************)
(* Properties of the split and of the normalisation.                       *)
(***************************************************************************)
AfterSplit == pc \in {"normalize", "done", "error"}

Origins(pd) == {pd.pitch_data[i].o : i \in 1..Len(pd.pitch_data)}

\* The number of rows of pd that hold pitch o.
Copies(pd, o) == Cardinality({i \in 1..Len(pd.pitch_data) : pd.pitch_data[i].o = o})

\* C1: the train, validation and test index sets are pairwise disjoint and
\* together are exactly 0..N-1, and after the shuffle every observation of
\* pitch_data is a row of exactly one of train_data, valid_data, test_data.
C1_SplitIsPartition ==
  AfterSplit =>
    LET N == NumObservations(pitch_data)
        T == Range(train_indices)
        V == Range(valid_indices)
        S == Range(test_indices)
    IN /\ T \cap V = {} /\ T \cap S = {} /\ V \cap S = {}
       /\ T \cup V \cup S = 0..(N - 1)
       /\ Cardinality(T) = Len(train_indices)
       /\ Cardinality(V) = Len(valid_indices)
       /\ Cardinality(S) = Len(test_indices)
       /\ Origins(train_data) \cup Origins(valid_data) \cup Origins(test_data)
            = Origins(pitch_data)
       /\ \A o \in Origins(pitch_data) :
            Copies(train_data, o) + Copies(valid_data, o) + Copies(test_data, o) = 1

\* A split of 7 observations (not a multiple of 5) into three non-empty sets.
C1_Witness ==
  /\ AfterSplit
  /\ NumObservations(pitch_data) = 7
  /\ train_indices # <<>> /\ valid_indices # <<>> /\ test_indices # <<>>
  /\ NumObservations(train_data) + NumObservations(valid_data)
       + NumObservations(test_data) = 7

\* C2: the split is 60/20/20: |train| = floor(0.6 N), |validation| =
\* floor(0.2 N), |test| is the rest, and 0 <= |test| - 0.2 N < 2.
C2_SplitProportions ==
  AfterSplit =>
    LET N == NumObservations(pitch_data)
        t == NumObservations(train_data)
        v == NumObservations(valid_data)
        s == NumObservations(test_data)
    IN /\ 10 * t <= 6 * N /\ 6 * N < 10 * (t + 1)
       /\ 10 * v <= 2 * N /\ 2 * N < 10 * (v + 1)
       /\ s = N - t - v
       /\ 0 <= 5 * s - N /\ 5 * s - N < 10

\* A split of 9 observations: 5 / 1 / 3, the test set 1.2 above 20%.
C2_Witness ==
  /\ AfterSplit
  /\ NumObservations(pitch_data) = 9
  /\ NumObservations(train_data) = 5
  /\ NumObservations(valid_data) = 1
  /\ NumObservations(test_data) = 3

\* The rows of the pickled file a matrix holds, before any scaling.
Unscaled(X) == [i \in 1..Len(X) |-> [X[i] EXCEPT !.v = raw[X[i].o].feat]]

\* C3: the scaler is fit on the training rows only and that one scaler is
\* applied to all splits: a second run with the same training rows and other
\* validation / test rows gets the same scaler, the scaler is the one fit on
\* the unscaled training rows, and each of train_data, valid_data, test_data
\* holds its unscaled rows transformed once by it.
C3_ScalerFitOnTrainOnly ==
  /\ (scaler # NotFitted /\ 1 \notin Origins(train_data)) => scaler = alt_scaler
  /\ pc = "done" =>
       /\ scaler = StandardScalerFit(Unscaled(train_data.pitch_data))
       /\ \A d \in {train_data, valid_data, test_data} :
            d.pitch_data = StandardScalerTransform(scaler, Unscaled(d.pitch_data))

\* A finished run whose pitch 1, the one the second run changes, is a
\* validation or test row.
C3_Witness ==
  /\ pc = "done"
  /\ 1 \in Origins(valid_data) \cup Origins(test_data)
  /\ AltMatrix(Unscaled(valid_data.pitch_data) \o Unscaled(test_data.pitch_data))
       # Unscaled(valid_data.pitch_data) \o Unscaled(test_data.pitch_data)
  /\ scaler = alt_scaler

(***************************************************************************)
(* Properties of pitcher and batter identities.                            *)
(***************************************************************************)
Splits == {train_data, valid_data, test_data}

\* The id the parent data set gives, in column col, to pitch o.
ParentId(col, o) == (CHOOSE c \in Range(col) : c.o = o).v

\* C5: filter_rows with reassign_ids=False keeps identities: each split has
\* the parent's pitchers and batters lists, every row keeps its parent's ids,
\* and every id of validation or test is below num_pitchers / num_batters,
\* the lengths of train_data's lists.
C5_SplitKeepsIds ==
  AfterSplit =>
    /\ \A d \in Splits :
         /\ d.pitchers = pitch_data.pitchers
         /\ d.batters = pitch_data.batters
         /\ \A i \in 1..NumObservations(d) :
              /\ d.pitcher_ids[i].v = ParentId(pitch_data.pitcher_ids, d.pitcher_ids[i].o)
              /\ d.batter_ids[i].v = ParentId(pitch_data.batter_ids, d.batter_ids[i].o)
    /\ \A d \in {valid_data, test_data} :
         /\ \A id \in IdsUsed(d.pitcher_ids) : id < Len(train_data.pitchers)
         /\ \A id \in IdsUsed(d.batter_ids) : id < Len(train_data.batters)

\* A split whose validation or test set holds a pitcher, and one whose
\* validation or test set holds a batter, without a training row.
C5_Witness ==
  /\ AfterSplit
  /\ \E d \in {valid_data, test_data} :
       IdsUsed(d.pitcher_ids) \ IdsUsed(train_data.pitcher_ids) # {}
  /\ \E d \in {valid_data, test_data} :
       IdsUsed(d.batter_ids) # {} /\ IdsUsed(d.batter_ids) # IdsUsed(train_data.batter_ids)
  /\ Len(train_data.pitchers) = 2

\* C10: the density block is indexed by pitcher id: once it is attached,
\* pitch_density has one row per entry of pitch_data.pitchers, row i holds the
\* stored summary of the pitcher named pitchers[i] (every entry shifted by one
\* and the same mean), and in train, validation and test the row a pitch's
\* pitcher id selects is the summary of the pitcher who threw that pitch.
C10_DensityIndexedByPitcherId ==
  /\ pc \notin {"prep_data", "prep_density"} =>
       LET block == pitch_data.pitch_density
           shift(i, k) == block[i].vec[k].den * compressed_density[block[i].name].vec[k]
                            - block[i].vec[k].num
       IN /\ Len(block) = Len(pitch_data.pitchers)
          /\ \A i \in 1..Len(block) :
               /\ block[i].name = pitch_data.pitchers[i]
               /\ Len(block[i].vec) = Len(compressed_density[block[i].name].vec)
               /\ \A k \in 1..Len(block[i].vec) : shift(i, k) = shift(1, 1)
  /\ AfterSplit =>
       \A d \in Splits :
         /\ d.pitch_density = pitch_data.pitch_density
         /\ \A i \in 1..NumObservations(d) :
              d.pitch_density[d.pitcher_ids[i].v + 1].name = raw[d.pitcher_ids[i].o].pitcher

\* Two pitchers' summaries are attached, and the test set has a pitch of the
\* second pitcher, who has no pitch in the training set.
C10_Witness ==
  /\ AfterSplit
  /\ Len(pitch_data.pitch_density) = 2
  /\ 1 \in IdsUsed(test_data.pitcher_ids)
  /\ 1 \notin IdsUsed(train_data.pitcher_ids)
  /\ NumObservations(train_data) > 0

\* The number of pitches of the file thrown by name that have no missing value.
NonNullPitches(name) ==
  Cardinality({o \in DOMAIN raw : raw[o].pitcher = name /\ ~raw[o].null})

HighVolumeNames == {name \in PitcherNames : NonNullPitches(name) > HighCount}

\* C7: after filter_nulls and the high-volume filter the pitchers list holds
\* exactly the pitchers with more than HighCount pitches without missing
\* value, in their former order and once each; the rows are those pitchers'
\* pitches without missing value, each row's id naming its own pitcher;
\* pitches_per_pitcher() has one entry per pitcher, each above HighCount, and
\* the entries sum to num_observations.
C7_HighVolumeFilter ==
  pc # "prep_data" =>
    LET names == pitch_data.pitchers
        k == Len(names)
        before == FromDict(raw).pitchers
        counts == PitchesPerPitcher(pitch_data)
    IN /\ Range(names) = HighVolumeNames
       /\ k = Cardinality(HighVolumeNames)
       /\ \A i, j \in 1..k : i < j => IndexOf(before, names[i]) < IndexOf(before, names[j])
       /\ Origins(pitch_data) =
            {o \in DOMAIN raw : ~raw[o].null /\ raw[o].pitcher \in HighVolumeNames}
       /\ \A i \in 1..NumObservations(pitch_data) :
            /\ pitch_data.pitcher_ids[i].v \in 0..(k - 1)
            /\ names[pitch_data.pitcher_ids[i].v + 1] = raw[pitch_data.pitcher_ids[i].o].pitcher
       /\ Len(counts) = k
       /\ \A i \in 1..k : counts[i] > HighCount
       /\ SumSeq(counts) = NumObservations(pitch_data)

\* A file whose first pitcher falls at or below the count because of missing
\* values, so that the second pitcher is renumbered from 1 to 0.
C7_Witness ==
  /\ pc = "prep_density"
  /\ pitch_data.pitchers = <<"p2">>
  /\ FromDict(raw).pitchers = <<"p1", "p2">>
  /\ NonNullPitches("p1") = HighCount
  /\ \E o \in DOMAIN raw : raw[o].pitcher = "p1" /\ raw[o].null
  /\ NumObservations(pitch_data) > HighCount

(***************************************************************************)
(* PitchData driven directly: any sequence of filter and shuffle calls on  *)
(* the object loaded from the file, with the arguments the notebooks use   *)
(* (in_place=True or no in_place; reassign_ids=False or no reassign_ids).  *)
(***************************************************************************)
\* The pitch dictionaries this exercise starts from have up to MaxApiRows pitches.
MaxApiRows == 3

InPlaceArgs == {"omitted", "True"}

\* The value a method sees for in_place.
InPlaceValue(arg) == IF arg = "True" THEN TRUE ELSE InPlaceDefault

InitApi ==
  /\ \E n \in 0..MaxApiRows :
       /\ raw \in RawFiles(n)
       /\ gen \in [{FinalSeed} -> Generators(n)]
  /\ pc = "api"
  /\ pitch_data = FromDict(raw)
  /\ TrainIdle
  /\ KdeIdle
  /\ ret = None /\ last = NoCall
  /\ LaterIdle

\* A filter call on pitch_data: the receiver and the returned value after it,
\* and the record of the call.
FilterCall(op, arg, call, built) ==
  /\ pc = "api"
  /\ pitch_data' = call.self
  /\ ret' = call.ret
  /\ last' = [op |-> op, arg |-> arg, built |-> built]
  /\ pc' = "returned"
  /\ UNCHANGED <<laterVars, raw, gen, trainVars, kdeVars>>

CallFilterNulls ==
  \E arg \in InPlaceArgs :
    FilterCall("filter_nulls", arg,
               FilterNulls(pitch_data, InPlaceValue(arg)),
               FilterNulls(pitch_data, FALSE).ret)

CallFilterByPitcherId ==
  \E arg \in InPlaceArgs, chosen \in SUBSET (0..(Len(pitch_data.pitchers) - 1)) :
    FilterCall("filter_by_pitcher_id", arg,
               FilterByPitcherId(pitch_data, SortedSeq(chosen), InPlaceValue(arg)),
               FilterByPitcherId(pitch_data, SortedSeq(chosen), FALSE).ret)

CallFilterRows ==
  \E arg \in InPlaceArgs, reassign_ids \in BOOLEAN,
     a \in 0..NumObservations(pitch_data), b \in 0..NumObservations(pitch_data) :
    /\ a <= b
    /\ FilterCall("filter_rows", arg,
                  FilterRows(pitch_data, PyRange(a, b), InPlaceValue(arg), reassign_ids),
                  FilterRows(pitch_data, PyRange(a, b), FALSE, reassign_ids).ret)

CallShuffle ==
  /\ pc = "api"
  /\ pitch_data' = Shuffle(pitch_data, gen, FinalSeed)
  /\ ret' = None
  /\ last' = [op |-> "shuffle", arg |-> "omitted", built |-> pitch_data']
  /\ pc' = "returned"
  /\ UNCHANGED <<laterVars, raw, gen, trainVars, kdeVars>>

\* The statement after a call: the next call is made on the same object
\* (the returned value, if any, is dropped) ...
CarryOn ==
  /\ pc = "returned"
  /\ pc' = "api"
  /\ ret' = None
  /\ last' = NoCall
  /\ UNCHANGED <<laterVars, raw, gen, pitch_data, trainVars, kdeVars>>

\* ... or on the PitchData the call returned, as with
\* high_pitch_data = pitch_data.filter_by_pitcher_id(high_volume_pitchers).
CarryOnWithReturned ==
  /\ pc = "returned"
  /\ ret # None
  /\ pitch_data' = ret
  /\ pc' = "api"
  /\ ret' = None
  /\ last' = NoCall
  /\ UNCHANGED <<laterVars, raw, gen, trainVars, kdeVars>>

NextApi ==
  \/ CallFilterNulls
  \/ CallFilterByPitcherId
  \/ CallFilterRows
  \/ CallShuffle
  \/ CarryOn
  \/ CarryOnWithReturned

SpecApi == InitApi /\ [][NextApi]_vars

\* The columns of pd have one length, and row i of every column is of the
\* same pitch of the file and holds that pitch's features, missing-value
\* flag, outcome, pitcher and batter.
RowAligned(pd) ==
  LET n == NumObservations(pd)
  IN /\ Len(pd.pitch_outcomes) = n /\ Len(pd.pitcher_ids) = n /\ Len(pd.batter_ids) = n
     /\ \A i \in 1..n :
          LET o == pd.pitch_data[i].o
          IN /\ o \in DOMAIN raw
             /\ pd.pitch_outcomes[i].o = o
             /\ pd.pitcher_ids[i].o = o
             /\ pd.batter_ids[i].o = o
             /\ pd.pitch_data[i].v = raw[o].feat
             /\ pd.pitch_data[i].nan = raw[o].null
             /\ pd.pitch_outcomes[i].v = raw[o].outcome
             /\ pd.pitcher_ids[i].v \in 0..(Len(pd.pitchers) - 1)
             /\ pd.pitchers[pd.pitcher_ids[i].v + 1] = raw[o].pitcher
             /\ pd.batter_ids[i].v \in 0..(Len(pd.batters) - 1)
             /\ pd.batters[pd.batter_ids[i].v + 1] = raw[o].batter

\* C4: after any sequence of filter_nulls, filter_by_pitcher_id, filter_rows
\* and shuffle calls the columns of the PitchData, and of the PitchData the
\* last call returned, are row-aligned.
C4_RowsStayAligned ==
  /\ RowAligned(pitch_data)
  /\ ret # None => RowAligned(ret)

\* A shuffle that moved rows, after a filter that dropped and renumbered a
\* pitcher, with two pitchers and two batters left.
C4_Witness ==
  /\ last # NoCall /\ last.op = "shuffle"
  /\ \E i \in 1..(NumObservations(pitch_data) - 1) :
       pitch_data.pitch_data[i].o > pitch_data.pitch_data[i + 1].o
  /\ Len(pitch_data.pitchers) = 2 /\ Len(pitch_data.batters) = 2
  /\ Len(FromDict(raw).pitch_data) > NumObservations(pitch_data)
  /\ \E o \in DOMAIN raw : raw[o].null

FilterOps == {"filter_nulls", "filter_by_pitcher_id", "filter_rows"}

\* C6 as claimed: every filter or shuffle call mutates its receiver in place
\* unless the caller asks for a copy (no call of the notebooks does): after
\* the call the receiver is the data the call built.
C6_AlwaysInPlace ==
  last # NoCall => pitch_data = last.built

\* C6 as amended: a filter call mutates its receiver when it is passed
\* in_place=True; without in_place it leaves the receiver as it was and
\* returns the filtered data as a new PitchData.  shuffle mutates its receiver.
C6_InPlaceOnlyOnRequest ==
  [][ /\ (last'.op \in FilterOps /\ last'.arg = "True") => pitch_data' = last'.built
      /\ (last'.op \in FilterOps /\ last'.arg = "omitted") =>
           pitch_data' = pitch_data /\ ret' = last'.built
      /\ last'.op = "shuffle" => pitch_data' = last'.built ]_vars

\* A filter call without in_place that dropped rows and left the receiver
\* whole.
C6_Witness ==
  /\ last # NoCall
  /\ last.op \in FilterOps /\ last.arg = "omitted"
  /\ NumObservations(last.built) < NumObservations(pitch_data)
  /\ ret = last.built

(***************************************************************************)
(* The density notebook: per pitcher, the density variables of his pitches *)
(* are split into train and test rows, a kernel density estimate is        *)
(* rendered on a voxel grid, the renders are compressed to the voxels that *)
(* matter for some pitcher, and the train rows are summarised by their     *)
(* percentiles.  Density values are kept in hundredths, percentiles in     *)
(* hundredths of the unit of the variable.                                 *)
(***************************************************************************)

\* resolutions=[10, 10, 10], scaled down.
Res == 2

\* The longest file of the runs that vary the pitchers and the missing values.
MaxKdeRows == 4

\* random_state of train_test_split.
DensitySeed == 1729

\* render_maxima > 0.02, in hundredths.
RetainThreshold == 2

Percentiles == <<1, 5, 25, 50, 75, 95, 99>>

DensityVariables == {"velocity_y", "accel_x", "accel_z"}

\* [i for i, v in enumerate(data_columns) if v in density_variables], as
\* positions in a feature row.
DensityColumns ==
  SortedSeq({i \in DOMAIN VariableNames : VariableNames[i] \in DensityVariables})

\* The first three columns taken, whatever their names.
PitcherDensityData_FirstColumns(pitcher_data) ==
  [i \in 1..NumObservations(pitcher_data) |->
     [o |-> pitcher_data.pitch_data[i].o,
      v |-> [k \in 1..3 |-> pitcher_data.pitch_data[i].v[k]]]]

\* pitcher_density_data: pitcher_data.pitch_data[:, density_columns]
PitcherDensityData(pitcher_data) ==
  [i \in 1..NumObservations(pitcher_data) |->
     [o |-> pitcher_data.pitch_data[i].o,
      v |-> [k \in 1..Len(DensityColumns) |->
               pitcher_data.pitch_data[i].v[DensityColumns[k]]]]]

\* ceil(0.3 * n), the number of test rows of train_test_split(test_size=0.3).
\* The double nearest 0.3 is below 0.3 by less than 2e-17, so the rounded
\* product is never above 3n/10 and its ceiling is ceil(3n/10).
TestObs(n) == (3 * n + 9) \div 10

\* sklearn.model_selection.train_test_split(X, test_size=0.3, random_state):
\* of the permutation the seed yields for Len(X) rows, the first n_test
\* entries are the test rows and the rest the train rows.
TrainTestSplit(X, g) ==
  LET n == Len(X)
      perm == PermOf(g, n)
      n_test == TestObs(n)
  IN [train |-> [k \in 1..(n - n_test) |-> X[perm[n_test + k]]],
      test |-> [k \in 1..n_test |-> X[perm[k]]]]

\* np.concatenate([v["train"] for v in density_data.values()], 0)
RECURSIVE TrainCombined(_, _)
TrainCombined(data, names) ==
  IF names = {} THEN <<>>
  ELSE LET name == CHOOSE x \in names : TRUE
       IN data[name].train \o TrainCombined(data, names \ {name})

\* The voxels of a render, by their three grid coordinates.
Voxels == (0..(Res - 1)) \X (0..(Res - 1)) \X (0..(Res - 1))

NumVoxels == Res * Res * Res

Distance(a, b) == IF a >= b THEN a - b ELSE b - a

\* A render: a peak of height top at one voxel, its neighbours at 3 (wide) or
\* at 2 (narrow), nothing elsewhere.
Render(k) ==
  [w \in Voxels |->
     LET d == Distance(w[1], k.peak[1]) + Distance(w[2], k.peak[2])
                + Distance(w[3], k.peak[3])
     IN IF d = 0 THEN k.top ELSE IF d = 1 THEN (IF k.wide THEN 3 ELSE 2) ELSE 0]

Kernels == [peak : Voxels, wide : BOOLEAN, top : {2, 5}]

\* np.reshape(grid, [-1]): the voxels in row-major order, last coordinate
\* fastest.
ReshapeGrid(grid) ==
  [j \in 1..NumVoxels |->
     grid[<<(j - 1) \div (Res * Res), ((j - 1) \div Res) % Res, (j - 1) % Res>>]]

\* np.minimum(a, b) and np.maximum(a, b), element by element.
Minimum(a, b) == [w \in Voxels |-> IF a[w] <= b[w] THEN a[w] ELSE b[w]]
Maximum(a, b) == [w \in Voxels |-> IF a[w] >= b[w] THEN a[w] ELSE b[w]]

\* for render in renders.values(): acc = np.minimum(acc, render)
RECURSIVE MinimaOver(_, _, _)
MinimaOver(acc, renders, names) ==
  IF names = {} THEN acc
  ELSE LET name == CHOOSE x \in names : TRUE
       IN MinimaOver(Minimum(acc, renders[name]), renders, names \ {name})

\* for render in renders.values(): acc = np.maximum(acc, render)
RECURSIVE MaximaOver(_, _, _)
MaximaOver(acc, renders, names) ==
  IF names = {} THEN acc
  ELSE LET name == CHOOSE x \in names : TRUE
       IN MaximaOver(Maximum(acc, renders[name]), renders, names \ {name})

\* The voxels at or above the threshold kept.
RetainedVoxels_AtLeast(maxima) ==
  LET flat == ReshapeGrid(maxima) IN [j \in 1..NumVoxels |-> flat[j] >= RetainThreshold]

\* np.reshape(render_maxima > 0.02, [-1])
RetainedVoxels(maxima) ==
  LET flat == ReshapeGrid(maxima) IN [j \in 1..NumVoxels |-> flat[j] > RetainThreshold]

\* flat[mask], mask a boolean vector of flat's length: the entries of flat
\* where mask is true, in flat's order.
RECURSIVE BoolIndex(_, _)
BoolIndex(flat, mask) ==
  IF flat = <<>> THEN <<>>
  ELSE (IF Head(mask) THEN <<Head(flat)>> ELSE <<>>) \o BoolIndex(Tail(flat), Tail(mask))

\* np.sort of a vector of numbers.
RECURSIVE SortInts(_)
SortInts(seq) ==
  IF seq = <<>> THEN <<>>
  ELSE LET x == Head(seq)
           rest == SortInts(Tail(seq))
       IN SelectSeq(rest, LAMBDA y : y < x) \o <<x>> \o SelectSeq(rest, LAMBDA y : y >= x)

\* np.percentile(col, q), times 100: with the values sorted, the value at the
\* fractional position q/100 * (n - 1), linearly interpolated between its
\* two neighbours.
Percentile(col, q) ==
  LET sorted == SortInts(col)
      pos == q * (Len(col) - 1)
      lo == pos \div 100
      frac == pos % 100
      hi == IF frac = 0 THEN lo ELSE lo + 1
  IN sorted[lo + 1] * (100 - frac) + sorted[hi + 1] * frac

Column(X, c) == [i \in 1..Len(X) |-> X[i].v[c]]

\* np.percentile(train, [1, 5, 25, 50, 75, 95, 99], axis=0): one row per
\* percentile, one column per density variable.
Quantiles(train) ==
  [qi \in 1..Len(Percentiles) |->
     [c \in 1..Len(train[1].v) |-> Percentile(Column(train, c), Percentiles[qi])]]

\* M.transpose() of a matrix kept as its sequence of rows.
Transpose(M) == [c \in 1..Len(M[1]) |-> [r \in 1..Len(M) |-> M[r][c]]]

\* np.reshape(M, [-1]) of a matrix: its rows one after the other.
RECURSIVE ReshapeMatrix(_)
ReshapeMatrix(M) == IF M = <<>> THEN <<>> ELSE Head(M) \o ReshapeMatrix(Tail(M))

\* The percentile matrix flattened as it is, without the transpose.
QuantileVector_NoTranspose(train) == ReshapeMatrix(Quantiles(train))

\* np.reshape(quantiles.transpose(), [-1])
QuantileVector(train) == ReshapeMatrix(Transpose(Quantiles(train)))

\* The files whose pitchers and missing values vary.
KdeFiles == UNION {RawFiles(n) : n \in 0..MaxKdeRows}

\* The files whose velocity_y values vary: five pitches of p1, two of p2.
FeatureFiles ==
  {[o \in 1..7 |->
      [pitcher |-> IF o <= 5 THEN "p1" ELSE "p2", batter |-> BatterOf(o), null |-> FALSE,
       feat |-> IF o <= 5 THEN [FeatureOf(o) EXCEPT ![2] = f[o]] ELSE FeatureOf(o),
       outcome |-> OutcomeOf(o)]] :
     f \in [1..5 -> {0, 1, 3}]}

\* The file of the runs whose renders vary: two pitches of each pitcher.
KernelFile ==
  [o \in 1..4 |->
     [pitcher |-> IF o % 2 = 1 THEN "p1" ELSE "p2", batter |-> BatterOf(o), null |-> FALSE,
      feat |-> FeatureOf(o), outcome |-> OutcomeOf(o)]]

InitKde ==
  /\ \/ /\ raw \in KdeFiles
        /\ gen \in [{DensitySeed} -> Generators(Len(raw))]
        /\ kde = PlainKernel
     \/ /\ raw \in FeatureFiles
        /\ gen \in [{DensitySeed} -> Generators(5)]
        /\ kde = PlainKernel
     \/ /\ raw = KernelFile
        /\ gen = [seed \in {DensitySeed} |-> [rot |-> 0, rev |-> FALSE]]
        /\ kde \in [PitcherNames -> Kernels]
  /\ pc = "kde_prep"
  /\ pitch_data = FromDict(raw)
  /\ TrainIdle
  /\ KdeEmpty
  /\ ret = None /\ last = NoCall
  /\ LaterIdle

\* The high-volume selection made on all pitches, missing values included.
HighPitchData_NullsKept(pd) ==
  LET high_volume_pitchers == HighCountPitchers(PitchesPerPitcher(pd))
  IN FilterByPitcherId(pd, high_volume_pitchers, InPlaceDefault)

\* pitch_data.filter_nulls(in_place=True), then the pitches of the pitchers
\* with a high pitch count: the receiver after the two calls and what the
\* second returns.
HighPitchData(pd) ==
  LET nonnull == FilterNulls(pd, TRUE).self
      high_volume_pitchers == HighCountPitchers(PitchesPerPitcher(nonnull))
  IN FilterByPitcherId(nonnull, high_volume_pitchers, InPlaceDefault)

\* The cell that loads the data: missing values dropped in place, the
\* high-volume pitchers' pitches bound to high_pitch_data.
KdePrep ==
  /\ pc = "kde_prep"
  /\ LET call == HighPitchData(pitch_data)
     IN /\ pitch_data' = call.self
        /\ high_pitch_data' = call.ret
        /\ pc' = IF Len(call.ret.pitchers) = 0 THEN "kde_scaler" ELSE "kde_split"
  /\ UNCHANGED <<laterVars, raw, gen, trainVars, ret, last, kde, density_data, pitcher_density_renders,
                 render_minima, render_maxima, retained_voxels, compressed_renders,
                 pitcher_quantiles>>

\* One iteration of "for id_, name in enumerate(high_pitch_data.pitchers)".
KdeSplitPitcher ==
  /\ pc = "kde_split"
  /\ LET id_ == Cardinality(DOMAIN density_data)
         name == high_pitch_data.pitchers[id_ + 1]
         call == FilterByPitcherId(high_pitch_data, <<id_>>, InPlaceDefault)
         density_matrix == PitcherDensityData(call.ret)
     IN /\ high_pitch_data' = call.self
        /\ density_data' = (name :> TrainTestSplit(density_matrix, gen[DensitySeed]))
                             @@ density_data
        /\ pc' = IF id_ + 1 = Len(high_pitch_data.pitchers) THEN "kde_scaler" ELSE "kde_split"
  /\ UNCHANGED <<laterVars, raw, gen, pitch_data, trainVars, ret, last, kde, pitcher_density_renders,
                 render_minima, render_maxima, retained_voxels, compressed_renders,
                 pitcher_quantiles>>

\* The scaler of the density estimators, fit on all pitchers' train rows;
\* np.concatenate raises on an empty list.
KdeFitScaler ==
  /\ pc = "kde_scaler"
  /\ IF DOMAIN density_data = {}
     THEN /\ pc' = "kde_error"
          /\ UNCHANGED scaler
     ELSE /\ scaler' = StandardScalerFit(TrainCombined(density_data, DOMAIN density_data))
          /\ pc' = "kde_render"
  /\ UNCHANGED <<laterVars, raw, gen, pitch_data, compressed_density, train_indices, valid_indices,
                 test_indices, train_data, valid_data, test_data, alt_scaler, ret, last,
                 kdeVars>>

\* One estimator per pitcher, fit on his train rows and rendered on the grid.
KdeRender ==
  /\ pc = "kde_render"
  /\ pitcher_density_renders' = [name \in DOMAIN density_data |-> Render(kde[name])]
  /\ pc' = "kde_extrema"
  /\ UNCHANGED <<laterVars, raw, gen, pitch_data, trainVars, ret, last, kde, high_pitch_data,
                 density_data, render_minima, render_maxima, retained_voxels,
                 compressed_renders, pitcher_quantiles>>

\* The voxel-wise minimum and maximum over the pitchers; values()[0] raises
\* on an empty dictionary.
KdeExtrema ==
  /\ pc = "kde_extrema"
  /\ LET names == DOMAIN pitcher_density_renders
     IN IF names = {}
        THEN /\ pc' = "kde_error"
             /\ UNCHANGED <<render_minima, render_maxima>>
        ELSE LET first == pitcher_density_renders[CHOOSE x \in names : TRUE]
             IN /\ render_minima' = MinimaOver(first, pitcher_density_renders, names)
                /\ render_maxima' = MaximaOver(first, pitcher_density_renders, names)
                /\ pc' = "kde_compress"
  /\ UNCHANGED <<laterVars, raw, gen, pitch_data, trainVars, ret, last, kde, high_pitch_data,
                 density_data, pitcher_density_renders, retained_voxels,
                 compressed_renders, pitcher_quantiles>>

\* The renders cut down to the retained voxels.
KdeCompress ==
  /\ pc = "kde_compress"
  /\ retained_voxels' = RetainedVoxels(render_maxima)
  /\ compressed_renders' =
       [name \in DOMAIN pitcher_density_renders |->
          BoolIndex(ReshapeGrid(pitcher_density_renders[name]), retained_voxels')]
  /\ pc' = "kde_quantiles"
  /\ UNCHANGED <<laterVars, raw, gen, pitch_data, trainVars, ret, last, kde, high_pitch_data,
                 density_data, pitcher_density_renders, render_minima, render_maxima,
                 pitcher_quantiles>>

\* The percentile summary of every pitcher's train rows.
KdeQuantiles ==
  /\ pc = "kde_quantiles"
  /\ pitcher_quantiles' =
       [name \in DOMAIN density_data |-> QuantileVector(density_data[name].train)]
  /\ pc' = "kde_done"
  /\ UNCHANGED <<laterVars, raw, gen, pitch_data, trainVars, ret, last, kde, high_pitch_data,
                 density_data, pitcher_density_renders, render_minima, render_maxima,
                 retained_voxels, compressed_renders>>

NextKde ==
  \/ KdePrep
  \/ KdeSplitPitcher
  \/ KdeFitScaler
  \/ KdeRender
  \/ KdeExtrema
  \/ KdeCompress
  \/ KdeQuantiles

SpecKde == InitKde /\ [][NextKde]_vars

(***************************************************************************)
(* Properties of the density notebook.                                     *)
(***************************************************************************)
Compressed == pc \in {"kde_quantiles", "kde_done"}

\* The number of retained voxels among the first j of the flattened grid.
RetainedUpTo(j) == Cardinality({i \in 1..j : retained_voxels[i]})

\* C8: flattened voxel j is retained iff some pitcher's render is above the
\* threshold at j, render_maxima being at every voxel the largest of the
\* pitchers' values; every pitcher's compressed vector has as many entries
\* as there are retained voxels, and its k-th entry is that pitcher's value
\* at the k-th retained voxel of the flattened grid.
C8_CompressedRenders ==
  Compressed =>
    LET names == DOMAIN pitcher_density_renders
        flat(name) == ReshapeGrid(pitcher_density_renders[name])
    IN /\ \A w \in Voxels :
            /\ \E name \in names : render_maxima[w] = pitcher_density_renders[name][w]
            /\ \A name \in names : render_maxima[w] >= pitcher_density_renders[name][w]
       /\ \A j \in 1..NumVoxels :
            retained_voxels[j] <=> \E name \in names : flat(name)[j] > RetainThreshold
       /\ DOMAIN compressed_renders = names
       /\ \A name \in names :
            /\ Len(compressed_renders[name]) = RetainedUpTo(NumVoxels)
            /\ \A j \in 1..NumVoxels :
                 retained_voxels[j] =>
                   compressed_renders[name][RetainedUpTo(j)] = flat(name)[j]

\* Two pitchers' renders are compressed; some voxels are retained and some
\* dropped, a dropped voxel lying before a retained one; one retained voxel
\* is above the threshold for one pitcher only, and one dropped voxel has
\* its maximum at the threshold.
C8_Witness ==
  /\ pc = "kde_done"
  /\ Cardinality(DOMAIN compressed_renders) = 2
  /\ \E i, j \in 1..NumVoxels : i < j /\ ~retained_voxels[i] /\ retained_voxels[j]
  /\ \E j \in 1..NumVoxels :
       /\ retained_voxels[j]
       /\ \E name \in DOMAIN pitcher_density_renders :
            ReshapeGrid(pitcher_density_renders[name])[j] <= RetainThreshold
  /\ \E j \in 1..NumVoxels :
       ~retained_voxels[j] /\ ReshapeGrid(render_maxima)[j] = RetainThreshold

\* The number of entries of col that are at most (at least) e hundredths.
AtMost(col, e) == Cardinality({i \in 1..Len(col) : 100 * col[i] <= e})
AtLeast(col, e) == Cardinality({i \in 1..Len(col) : 100 * col[i] >= e})

\* C9: a pitcher's quantile summary has 21 = 3 x 7 entries, variable-major:
\* for v in 0..2 and q in 0..6, entry 7*v + q is the Percentiles[q]-th
\* percentile of density variable v over the pitcher's train rows (it has at
\* least floor(p*(n-1)/100) + 1 of the n values at or below it and at least
\* n - ceil(p*(n-1)/100) at or above it), and within each block of 7 the
\* entries are non-decreasing.
C9_QuantileLayout ==
  pc = "kde_done" =>
    \A name \in DOMAIN pitcher_quantiles :
      LET train == density_data[name].train
          vec == pitcher_quantiles[name]
          n == Len(train)
      IN /\ Len(vec) = 21
         /\ \A v \in 0..2 : \A q \in 0..6 :
              LET e == vec[7 * v + q + 1]
                  col == Column(train, v + 1)
                  pos == Percentiles[q + 1] * (n - 1)
              IN /\ e = Percentile(col, Percentiles[q + 1])
                 /\ AtMost(col, e) >= (pos \div 100) + 1
                 /\ AtLeast(col, e) >= n - ((pos + 99) \div 100)
                 /\ q < 6 => e <= vec[7 * v + q + 2]
         /\ \A i \in 1..n : \A v \in 1..3 :
              train[i].v[v] = raw[train[i].o].feat[DensityColumns[v]]

\* A pitcher with three train rows whose summary has an interpolated entry,
\* a block that is not constant, and a larger entry at the end of one block
\* than at the start of the next.
C9_Witness ==
  /\ pc = "kde_done"
  /\ \E name \in DOMAIN pitcher_quantiles :
       LET vec == pitcher_quantiles[name]
       IN /\ Len(density_data[name].train) = 3
          /\ \E k \in 1..Len(vec) : vec[k] % 100 # 0
          /\ vec[1] < vec[7]
          /\ vec[7] > vec[8]

\* C11: the three dictionaries of the density notebook have one and the same
\* key set, the names of the pitchers with more than HighCount pitches
\* without missing value (the notebook fails before writing any of them only
\* when there is no such pitcher), so every name the training notebooks keep
\* after their own filters on the same file is a key of each of them.
C11_DictionaryKeys ==
  /\ pc \in {"kde_extrema", "kde_compress", "kde_quantiles", "kde_done"} =>
       DOMAIN pitcher_density_renders = HighVolumeNames
  /\ pc \in {"kde_quantiles", "kde_done"} => DOMAIN compressed_renders = HighVolumeNames
  /\ pc = "kde_done" =>
       /\ DOMAIN pitcher_quantiles = HighVolumeNames
       /\ \A name \in Range(PrepMainData(FromDict(raw)).pitchers) :
            /\ name \in DOMAIN pitcher_density_renders
            /\ name \in DOMAIN compressed_renders
            /\ name \in DOMAIN pitcher_quantiles
  /\ pc = "kde_error" => HighVolumeNames = {}

\* The dictionaries are written for one pitcher of a file with two, the
\* other having enough pitches only when those with a missing value count.
C11_Witness ==
  /\ pc = "kde_done"
  /\ Cardinality(DOMAIN pitcher_quantiles) = 1
  /\ \E name \in PitcherNames \ HighVolumeNames :
       Cardinality({o \in DOMAIN raw : raw[o].pitcher = name}) > HighCount

\* The pitches of the file thrown by name that have no missing value.
PitchesOf(name) == {o \in DOMAIN raw : raw[o].pitcher = name /\ ~raw[o].null}

RowOrigins(X) == {X[i].o : i \in 1..Len(X)}

\* C12: for every pitcher of density_data, the train and test rows are
\* disjoint, each pitch once, together exactly that pitcher's pitches of
\* high_pitch_data and no other pitcher's, the test rows being ceil(0.3 n)
\* of the n; every row holds the pitch's velocity_y, accel_x and accel_z, in
\* this order, and nothing else; every render is a grid of Res x Res x Res
\* voxels.
C12_PerPitcherDensityData ==
  /\ \A name \in DOMAIN density_data :
       LET train == density_data[name].train
           test == density_data[name].test
           n == Cardinality(PitchesOf(name))
       IN /\ RowOrigins(train) \cap RowOrigins(test) = {}
          /\ RowOrigins(train) \cup RowOrigins(test) = PitchesOf(name)
          /\ Len(train) + Len(test) = n
          /\ 10 * Len(test) - 3 * n \in 0..9
          /\ \A row \in Range(train) \cup Range(test) :
               /\ Len(row.v) = 3
               /\ row.v[1] = raw[row.o].feat[IndexOf(VariableNames, "velocity_y") + 1]
               /\ row.v[2] = raw[row.o].feat[IndexOf(VariableNames, "accel_x") + 1]
               /\ row.v[3] = raw[row.o].feat[IndexOf(VariableNames, "accel_z") + 1]
  /\ pc \notin {"kde_prep", "kde_split"} =>
       DOMAIN density_data = Range(high_pitch_data.pitchers)
  /\ \A name \in DOMAIN pitcher_density_renders :
       /\ DOMAIN pitcher_density_renders[name] = Voxels
       /\ Cardinality(DOMAIN pitcher_density_renders[name]) = Res * Res * Res

\* Two pitchers are rendered; one has five pitches, three of them train rows
\* that do not start with his first pitch, two of them test rows.
C12_Witness ==
  /\ pc = "kde_done"
  /\ Cardinality(DOMAIN pitcher_density_renders) = 2
  /\ \E name \in DOMAIN density_data :
       /\ Len(density_data[name].train) = 3
       /\ Len(density_data[name].test) = 2
       /\ density_data[name].train[1].o # 1
       /\ density_data[name].test[1].o # 1

\* C20: filter_by_pitcher_id without in_place returns a new PitchData and
\* leaves the receiver as it was.  The cell that binds high_pitch_data leaves
\* pitch_data with all its pitchers, and every iteration of the loop over
\* high_pitch_data.pitchers leaves high_pitch_data's rows, pitchers and ids
\* unchanged, so that iteration id_ stores, under the name
\* high_pitch_data.pitchers[id_], the pitches of the pitcher of that name.
C20_ReceiverUnchanged ==
  [][/\ pc = "kde_prep" =>
          /\ pitch_data' = FilterNulls(pitch_data, TRUE).self
          /\ high_pitch_data' # None
     /\ pc = "kde_split" =>
          LET id_ == Cardinality(DOMAIN density_data)
              name == high_pitch_data.pitchers[id_ + 1]
          IN /\ high_pitch_data' = high_pitch_data
             /\ name \notin DOMAIN density_data
             /\ DOMAIN density_data' = DOMAIN density_data \cup {name}
             /\ RowOrigins(density_data'[name].train) \cup RowOrigins(density_data'[name].test)
                  = {high_pitch_data.pitch_data[j].o :
                       j \in {k \in 1..NumObservations(high_pitch_data) :
                                high_pitch_data.pitcher_ids[k].v = id_}}
             /\ \A o \in RowOrigins(density_data'[name].train)
                          \cup RowOrigins(density_data'[name].test) :
                  raw[o].pitcher = name]_vars

\* The loop has run for two pitchers on the one high_pitch_data, which still
\* holds both.
C20_Witness ==
  /\ pc = "kde_scaler"
  /\ Cardinality(DOMAIN density_data) = 2
  /\ Len(high_pitch_data.pitchers) = 2

(***************************************************************************)
(* The model cells of the final-model notebook: each builds a              *)
(* PitchOutcomeModel, trains it and saves it.  train runs train_steps      *)
(* mini-batch steps and records the validation score once every            *)
(* print_every of them; whether it counts the batches from 0 (recording    *)
(* before the step) or from 1 (recording after it) is not visible at the   *)
(* call sites, so both are kept (log_from).  The step counts 100000 and    *)
(* 220000 and the period 5000 are scaled down to train_args.               *)
(***************************************************************************)

\* The largest train_steps and print_every of a run.
MaxTrainSteps == 4
MaxEvery == 3

\* The file of the runs that go on to the model cells.
ModelRunRows == 10

\* Two cells given one and the same path.
CheckpointPath_Pasted(name) ==
  CASE name = "logistic" -> "../model_fits/logistic.tf"
    [] name = "single_hidden" -> "../model_fits/single_hidden.tf"
    [] name = "embedding" -> "../model_fits/embedding.tf"
    [] name = "density_direct" -> "../model_fits/density.tf"
    [] name = "density" -> "../model_fits/density.tf"

\* The path each cell passes to save.
CheckpointPath(name) ==
  CASE name = "logistic" -> "../model_fits/logistic.tf"
    [] name = "single_hidden" -> "../model_fits/single_hidden.tf"
    [] name = "embedding" -> "../model_fits/embedding.tf"
    [] name = "density_direct" -> "../model_fits/density_direct.tf"
    [] name = "density" -> "../model_fits/density.tf"

\* The train_steps each cell passes to train: 100000 for the first two
\* models, 220000 for the others.
TrainStepsOf(name, args) ==
  IF name \in {"logistic", "single_hidden"} THEN args.short ELSE args.long

\* The validation score a model reaches after a number of batches.
ValidationScore(name, batch) ==
  9 - (((IF name \in Range(ModelNames) THEN IndexOf(ModelNames, name) ELSE 0) + batch) % 4)

\* A PitchOutcomeModel as its constructor leaves it.
NewModel(name) ==
  [kind |-> "PitchOutcomeModel", name |-> name, status |-> "built", batch |-> 0,
   fit_log |-> [batch_number |-> <<>>, validation_score |-> <<>>]]

\* The log with its entries dropped for the newest one.
Record_KeepLast(fit_log, batch, score) ==
  [batch_number |-> <<batch>>, validation_score |-> <<score>>]

\* One more (batch number, validation score) pair at the end of the log.
Record(fit_log, batch, score) ==
  [batch_number |-> Append(fit_log.batch_number, batch),
   validation_score |-> Append(fit_log.validation_score, score)]

\* A validation score recorded at every batch.
Due_EveryBatch(number, every) == TRUE

\* Whether the batch with this number is one whose validation score is
\* recorded.
Due(number, every) == number % every = 0

\* One mini-batch step of train on a model that has done model.batch steps.
\* Counting from 0 the batch has number model.batch and is recorded before
\* the step, counting from 1 it has number model.batch + 1 and is recorded
\* after it.
TrainBatchOn(model, every, from) ==
  LET number == model.batch + from
  IN [model EXCEPT
        !.batch = model.batch + 1,
        !.status = "training",
        !.fit_log = IF Due(number, every)
                    THEN Record(model.fit_log, number, ValidationScore(model.name, number))
                    ELSE model.fit_log]

InitFinal ==
  /\ raw \in RawFiles(ModelRunRows)
  /\ gen = [seed \in {FinalSeed} |-> [rot |-> 3, rev |-> TRUE]]
  /\ pc = "prep_data"
  /\ pitch_data = FromDict(raw)
  /\ TrainIdle
  /\ KdeIdle
  /\ ret = None /\ last = NoCall
  /\ ModelsIdle
  /\ BootIdle
  /\ EvalIdle
  /\ train_args \in [short : 0..MaxTrainSteps, long : 0..MaxTrainSteps, every : 1..MaxEvery]
  /\ log_from \in {0, 1}

\* The variables a model cell leaves alone.
beforeModels == <<raw, gen, pc, pitch_data, trainVars, ret, last, kdeVars, evalVars>>

\* model = PitchOutcomeModel(...), the first statement of a model cell.
CellBuildModel ==
  /\ pc = "done"
  /\ cell.k <= Len(ModelNames)
  /\ cell.at = "build"
  /\ models' = [models EXCEPT ![ModelNames[cell.k]] = NewModel(ModelNames[cell.k])]
  /\ cell' = [cell EXCEPT !.at = "train"]
  /\ UNCHANGED <<beforeModels, bootVars, train_args, log_from, checkpoints, save_calls>>

\* One mini-batch step inside model.train(train_data, valid_data, ...).
TrainBatch ==
  /\ pc = "done"
  /\ cell.at = "train"
  /\ LET name == ModelNames[cell.k]
     IN /\ models[name].batch < TrainStepsOf(name, train_args)
        /\ models' = [models EXCEPT
                        ![name] = TrainBatchOn(models[name], train_args.every, log_from)]
  /\ UNCHANGED <<beforeModels, bootVars, train_args, log_from, checkpoints, save_calls, cell>>

\* model.train returns once train_steps steps are done.
TrainReturn ==
  /\ pc = "done"
  /\ cell.at = "train"
  /\ LET name == ModelNames[cell.k]
     IN /\ models[name].batch = TrainStepsOf(name, train_args)
        /\ models' = [models EXCEPT ![name].status = "trained"]
  /\ cell' = [cell EXCEPT !.at = "save"]
  /\ UNCHANGED <<beforeModels, bootVars, train_args, log_from, checkpoints, save_calls>>

\* model.save(path), the last statement of a model cell.
CellSaveModel ==
  /\ pc = "done"
  /\ cell.at = "save"
  /\ LET name == ModelNames[cell.k]
         path == CheckpointPath(name)
     IN /\ checkpoints' = (path :> models[name]) @@ checkpoints
        /\ save_calls' = Append(save_calls, [model |-> name, path |-> path,
                                             status |-> models[name].status])
  /\ cell' = [k |-> cell.k + 1, at |-> "build"]
  /\ UNCHANGED <<beforeModels, bootVars, models, train_args, log_from>>

NextFinal ==
  \/ Next
  \/ CellBuildModel
  \/ TrainBatch
  \/ TrainReturn
  \/ CellSaveModel

SpecFinal == InitFinal /\ [][NextFinal]_vars

(***************************************************************************)
(* Properties of the model cells.                                          *)
(***************************************************************************)
Bound == {name \in Range(ModelNames) : models[name] # Unbound}

IsPrefix(a, b) == Len(a) <= Len(b) /\ \A i \in 1..Len(a) : a[i] = b[i]

FitLogWellFormed ==
  \A name \in Bound :
    LET log == models[name].fit_log
    IN /\ Len(log.batch_number) = Len(log.validation_score)
       /\ \A i, j \in 1..Len(log.batch_number) :
            i < j => log.batch_number[i] < log.batch_number[j]

FitLogGrows ==
  \A name \in Bound :
    /\ name \in Bound'
    /\ IsPrefix(models[name].fit_log.batch_number, models'[name].fit_log.batch_number)
    /\ IsPrefix(models[name].fit_log.validation_score,
                models'[name].fit_log.validation_score)

\* C13: the fit log is append-only: at every point during and after train
\* the batch numbers and the validation scores are equally many, the batch
\* numbers strictly increase, and every step leaves the log it found as a
\* prefix of the log it leaves.
C13_FitLogAppendOnly == [](FitLogWellFormed) /\ [][FitLogGrows]_vars

\* A model is still training with two entries in its log, another is done
\* with three.
C13_Witness ==
  /\ \E name \in Bound :
       /\ models[name].status = "training"
       /\ Len(models[name].fit_log.batch_number) = 2
  /\ \E name \in Bound :
       /\ models[name].status = "trained"
       /\ Len(models[name].fit_log.batch_number) >= 3

\* C14: validation scoring is periodic: consecutive entries of a fit log are
\* print_every batches apart and no entry has a batch number above
\* train_steps; when train has returned the log holds at least
\* train_steps div print_every and at most train_steps div print_every + 1
\* entries, so it is not empty when train_steps >= print_every.
C14_PeriodicValidation ==
  \A name \in Bound :
    LET numbers == models[name].fit_log.batch_number
        train_steps == TrainStepsOf(name, train_args)
        print_every == train_args.every
    IN /\ \A i \in 1..Len(numbers) : numbers[i] <= train_steps
       /\ \A i \in 1..(Len(numbers) - 1) : numbers[i + 1] - numbers[i] = print_every
       /\ Len(numbers) <= (models[name].batch \div print_every) + 1
       /\ models[name].status = "trained" =>
            /\ Len(numbers) >= train_steps \div print_every
            /\ Len(numbers) <= (train_steps \div print_every) + 1
            /\ train_steps >= print_every => Len(numbers) >= 1

\* A train call whose train_steps is not a multiple of print_every has
\* returned with train_steps div print_every + 1 entries, and all five
\* models are trained.
C14_Witness ==
  /\ train_args.every > 1
  /\ \E name \in Bound :
       LET numbers == models[name].fit_log.batch_number
           train_steps == TrainStepsOf(name, train_args)
       IN /\ models[name].status = "trained"
          /\ train_steps % train_args.every # 0
          /\ Len(numbers) = (train_steps \div train_args.every) + 1
          /\ Len(numbers) >= 2
  /\ cell.k > Len(ModelNames)

\* C16: every save call is made on a model whose train call has returned,
\* no model is saved twice and no two save calls name the same path, so
\* every checkpoint holds the model saved to it; when the last model cell
\* is done the five checkpoints logistic, single_hidden, embedding,
\* density_direct and density are written under ../model_fits/, one per
\* model.
C16_CheckpointsWritten ==
  /\ \A i \in 1..Len(save_calls) :
       /\ save_calls[i].status = "trained"
       /\ checkpoints[save_calls[i].path].name = save_calls[i].model
       /\ checkpoints[save_calls[i].path] = models[save_calls[i].model]
       /\ \A j \in 1..Len(save_calls) :
            i # j => /\ save_calls[i].model # save_calls[j].model
                     /\ save_calls[i].path # save_calls[j].path
  /\ cell.k > Len(ModelNames) =>
       /\ {save_calls[i].model : i \in 1..Len(save_calls)} = Range(ModelNames)
       /\ DOMAIN checkpoints =
            {"../model_fits/logistic.tf", "../model_fits/single_hidden.tf",
             "../model_fits/embedding.tf", "../model_fits/density_direct.tf",
             "../model_fits/density.tf"}

\* The five models are saved, each after at least one training step.
C16_Witness ==
  /\ cell.k > Len(ModelNames)
  /\ Len(save_calls) = 5
  /\ \A name \in Range(ModelNames) : models[name].batch > 0

(***************************************************************************)
(* The prediction and bootstrap cells of the final-model notebook.  A      *)
(* perplexity exp(-mean(log(x))) of n scores x is kept as the pair of      *)
(* their product and n, of which it is a function.                         *)
(***************************************************************************)

\* 32768, the number of test pitches scored, and 500, the number of
\* bootstrap replicates, scaled down.
BootRows == 2
Replicates == 2

\* The lengths of the files of the runs that go on to the bootstrap: one
\* whose test set is shorter than BootRows, one whose test set is longer.
ShortRunRows == 5
BootRunRows == 15

\* The file of n pitches of one pitcher, none with a missing value.
PlainFile(n) ==
  [o \in 1..n |-> [pitcher |-> "p1", batter |-> BatterOf(o), null |-> FALSE,
                   feat |-> FeatureOf(o), outcome |-> OutcomeOf(o)]]

Outcomes == {OutcomeOf(o) : o \in 1..4}

\* model.predict(test_data): per test pitch, a score for every outcome.
Predict(name, test) ==
  [i \in 1..NumObservations(test) |->
     [c \in 1..Cardinality(Outcomes) |->
        1 + ((IndexOf(ModelNames, name) + test.pitch_outcomes[i].o + c) % 3)]]

\* seq[:n]
Truncate(seq, n) == [i \in 1..(IF Len(seq) < n THEN Len(seq) ELSE n) |-> seq[i]]

\* [predictions[i, o] for i, o in enumerate(test_outcomes)]
ModelScores(model_predictions, test_outcomes) ==
  [i \in 1..Len(test_outcomes) |-> model_predictions[i][test_outcomes[i].v + 1]]

\* The five score lists stacked as they are, one row per model.
CombinedScores_NoTranspose(preds, test_outcomes) ==
  [m \in 1..Len(ModelNames) |-> ModelScores(preds[ModelNames[m]], test_outcomes)]

\* np.array([logistic_scores, ..., density_scores]).transpose(): one row per
\* test pitch, one column per model.
CombinedScores(preds, test_outcomes) ==
  Transpose([m \in 1..Len(ModelNames) |-> ModelScores(preds[ModelNames[m]], test_outcomes)])

\* The scores of a second run in which only the logistic model predicts
\* differently.
AltScores(scores) == [i \in 1..Len(scores) |-> [scores[i] EXCEPT ![1] = @ + 1]]

\* np.random.choice(np.array(32768), 32768, replace=True): as many draws from
\* 0..n-1 as n.
Choices(n) == [1..n -> 0..(n - 1)]

\* scores[indices, :]
TakeRows(scores, indices) == [k \in 1..Len(indices) |-> scores[indices[k] + 1]]

RECURSIVE ProductSeq(_)
ProductSeq(seq) == IF seq = <<>> THEN 1 ELSE Head(seq) * ProductSeq(Tail(seq))

\* np.exp(-np.mean(np.log(bootstrap_scores), axis=0)): one perplexity per
\* column.
ScoresByModel(bootstrap_scores) ==
  [m \in 1..Len(bootstrap_scores[1]) |->
     [prod |-> ProductSeq([k \in 1..Len(bootstrap_scores) |-> bootstrap_scores[k][m]]),
      n |-> Len(bootstrap_scores)]]

InitBoot ==
  /\ raw \in {PlainFile(ShortRunRows), PlainFile(BootRunRows)}
  /\ gen \in [{FinalSeed} -> [rot : {0, 1}, rev : BOOLEAN]]
  /\ pc = "prep_data"
  /\ pitch_data = FromDict(raw)
  /\ TrainIdle
  /\ KdeIdle
  /\ ret = None /\ last = NoCall
  /\ ModelsIdle
  /\ BootIdle
  /\ EvalIdle
  /\ train_args = [short |-> 1, long |-> 2, every |-> 1]
  /\ log_from = 0

\* The variables the prediction and bootstrap cells leave alone.
beforeBoot == <<beforeModels, models, train_args, log_from, checkpoints, save_calls>>

\* The variables the score and predict cells leave alone: all that precede
\* them but test_data, which the models read in a pass of their own.
besideTest == <<raw, gen, pc, pitch_data, compressed_density, train_indices, valid_indices,
                test_indices, train_data, valid_data, scaler, alt_scaler, ret, last, kdeVars,
                evalVars, models, train_args, log_from, checkpoints, save_calls>>

\* An in-place shuffle of the data set by the permutation r.
Reshuffle(data, r) == Shuffle(data, <<r>>, 1)

\* The end of a model's pass over a data set: the data set is shuffled for
\* the next epoch when its shuffle_each_epoch is set, and left alone when it
\* is not.
EndOfEpoch(data, r) == IF data.shuffle_each_epoch THEN Reshuffle(data, r) ELSE data

\* The data set after the first k of the passes whose shuffles are rs.
RECURSIVE AfterPasses(_, _, _)
AfterPasses(data, rs, k) ==
  IF k = 0 THEN data ELSE EndOfEpoch(AfterPasses(data, rs, k - 1), rs[k])

\* model.score(test_data): the perplexity of the scores the model gives the
\* outcomes of the test pitches.
Score(name, test) ==
  [prod |-> ProductSeq(ModelScores(Predict(name, test), test.pitch_outcomes)),
   n |-> NumObservations(test)]

\* The five score calls, each model making its pass over test_data as the
\* model before it left it.
CellScore ==
  /\ pc = "done"
  /\ cell.k = Len(ModelNames) + 1
  /\ cell.at = "build"
  /\ \E rs \in [1..Len(ModelNames) -> Generators(NumObservations(test_data))] :
       /\ test_scores' =
            [name \in Range(ModelNames) |->
               Score(name, AfterPasses(test_data, rs, IndexOf(ModelNames, name)))]
       /\ test_data' = AfterPasses(test_data, rs, Len(ModelNames))
  /\ cell' = [cell EXCEPT !.at = "predict"]
  /\ UNCHANGED <<besideTest, predictions, combined_scores, alt_scores, bootstrap_draws,
                 bootstrapped_scores, alt_bootstrapped>>

\* The five predict calls, in the same way.
CellPredict ==
  /\ pc = "done"
  /\ cell.k = Len(ModelNames) + 1
  /\ cell.at = "predict"
  /\ \E rs \in [1..Len(ModelNames) -> Generators(NumObservations(test_data))] :
       /\ predictions' =
            [name \in Range(ModelNames) |->
               Predict(name, AfterPasses(test_data, rs, IndexOf(ModelNames, name)))]
       /\ test_data' = AfterPasses(test_data, rs, Len(ModelNames))
  /\ cell' = [cell EXCEPT !.at = "scores"]
  /\ UNCHANGED <<besideTest, test_scores, combined_scores, alt_scores, bootstrap_draws,
                 bootstrapped_scores, alt_bootstrapped>>

\* test_outcomes and combined_scores.
CellCombinedScores ==
  /\ pc = "done"
  /\ cell.at = "scores"
  /\ LET test_outcomes == Truncate(test_data.pitch_outcomes, BootRows)
     IN /\ combined_scores' = CombinedScores(predictions, test_outcomes)
        /\ alt_scores' = AltScores(CombinedScores(predictions, test_outcomes))
  /\ cell' = [cell EXCEPT !.at = "bootstrap"]
  /\ UNCHANGED <<beforeBoot, predictions, test_scores, bootstrap_draws, bootstrapped_scores,
                 alt_bootstrapped>>

\* One iteration of "for _ in range(500)"; indexing combined_scores with an
\* index it has no row for raises.
BootstrapReplicate ==
  /\ pc = "done"
  /\ cell.at = "bootstrap"
  /\ \E bootstrap_indices \in Choices(BootRows) :
       IF \E k \in 1..BootRows : bootstrap_indices[k] >= Len(combined_scores)
       THEN /\ cell' = [cell EXCEPT !.at = "error"]
            /\ UNCHANGED <<bootstrap_draws, bootstrapped_scores, alt_bootstrapped>>
       ELSE /\ bootstrap_draws' = Append(bootstrap_draws, bootstrap_indices)
            /\ bootstrapped_scores' =
                 Append(bootstrapped_scores,
                        ScoresByModel(TakeRows(combined_scores, bootstrap_indices)))
            /\ alt_bootstrapped' =
                 Append(alt_bootstrapped,
                        ScoresByModel(TakeRows(alt_scores, bootstrap_indices)))
            /\ cell' = [cell EXCEPT !.at = IF Len(bootstrap_draws) + 1 = Replicates
                                           THEN "plots" ELSE "bootstrap"]
  /\ UNCHANGED <<beforeBoot, predictions, test_scores, combined_scores, alt_scores>>

NextBoot ==
  \/ NextFinal
  \/ CellScore
  \/ CellPredict
  \/ CellCombinedScores
  \/ BootstrapReplicate

SpecBoot == InitBoot /\ [][NextBoot]_vars

\* C15: the comparison is a paired bootstrap: every replicate draws
\* BootRows indices from 0..BootRows-1 with replacement and one row of
\* bootstrapped_scores comes of it, whose entry for model m is the
\* perplexity of model m's scores of the test pitches at the drawn indices,
\* the same indices for all five models; in a run where only the logistic
\* model's scores differ the other four columns are the same; when the loop
\* is done the result has Replicates rows of five entries.
C15_PairedBootstrap ==
  /\ Len(bootstrapped_scores) = Len(bootstrap_draws)
  /\ Len(alt_bootstrapped) = Len(bootstrap_draws)
  /\ \A r \in 1..Len(bootstrap_draws) :
       LET draw == bootstrap_draws[r]
       IN /\ Len(draw) = BootRows
          /\ \A k \in 1..BootRows : draw[k] \in 0..(BootRows - 1)
          /\ Len(bootstrapped_scores[r]) = 5
          /\ \A m \in 1..5 :
               LET pred == predictions[ModelNames[m]]
                   drawn == [k \in 1..BootRows |->
                               pred[draw[k] + 1][test_data.pitch_outcomes[draw[k] + 1].v + 1]]
               IN /\ bootstrapped_scores[r][m].n = BootRows
                  /\ bootstrapped_scores[r][m].prod = ProductSeq(drawn)
                  /\ m > 1 => alt_bootstrapped[r][m] = bootstrapped_scores[r][m]
  /\ cell.at = "plots" => Len(bootstrapped_scores) = Replicates

\* The loop is done; one replicate drew an index twice, another drew
\* different indices; the logistic column of the second run differs, and
\* test_data has more pitches than are scored.
C15_Witness ==
  /\ cell.at = "plots"
  /\ NumObservations(test_data) > BootRows
  /\ \E r \in 1..Replicates : bootstrap_draws[r][1] = bootstrap_draws[r][2]
  /\ \E r \in 1..Replicates : bootstrap_draws[r][1] # bootstrap_draws[r][2]
  /\ \E r \in 1..Replicates : alt_bootstrapped[r][1] # bootstrapped_scores[r][1]
  /\ \E r \in 1..Replicates : bootstrapped_scores[r][1] # bootstrapped_scores[r][2]

\* C22: once the split is normalised no score or predict call changes
\* test_data, whose shuffle_each_epoch is off, and every entry of
\* combined_scores is the score the model of its column gave, for the pitch
\* of its row of test_data, to the outcome test_data holds for that pitch;
\* the perplexity printed for a model is that of its scores of the test
\* pitches in test_data's order.
TestDataInOrder ==
  /\ pc = "done" => ~test_data.shuffle_each_epoch /\ ~valid_data.shuffle_each_epoch
  /\ \A i \in 1..Len(combined_scores) : \A m \in 1..Len(ModelNames) :
       combined_scores[i][m] =
         Predict(ModelNames[m], test_data)[i][test_data.pitch_outcomes[i].v + 1]
  /\ \A name \in DOMAIN test_scores : test_scores[name] = Score(name, test_data)

TestDataUntouched == pc = "done" => test_data' = test_data /\ valid_data' = valid_data

C23_IndicesInRange ==
  /\ cell.at \in {"bootstrap", "plots", "error"} => Len(combined_scores) = BootRows
  /\ cell.at # "error"

(***************************************************************************)
(* The evaluation notebook: the pitch data is loaded and filtered, the     *)
(* three density arrays are built, and evaluate_parameters is called time  *)
(* and again on the one pitch_data object.  A notebook run can be followed *)
(* by another (a fresh kernel that loads the same files), so that what two *)
(* runs compute can be compared; the calls of all runs are kept in         *)
(* eval_calls.                                                             *)
(***************************************************************************)

\* The longest file, and the most calls and runs, of the evaluation runs.
MaxEvalRows == 7
MaxEvalCalls == 3
MaxRuns == 2

\* random_seed=1729, the default of split_data.
SplitSeed == 1729

DensityTypes == {"none", "full", "compressed", "quantile"}

\* The file of n pitches in which every third pitch is p2's.
EvalFile(n) ==
  [o \in 1..n |-> [pitcher |-> IF o % 3 = 0 THEN "p2" ELSE "p1", batter |-> BatterOf(o),
                   null |-> FALSE, feat |-> FeatureOf(o), outcome |-> OutcomeOf(o)]]

\* density_renders.p, compressed_renders.p and pitcher_quantiles.p as the
\* density notebook writes them for the renders of PlainKernel, every entry
\* tagged with the name it is stored under.
StoredFull(name) == [name |-> name, vec |-> ReshapeGrid(Render(PlainKernel[name]))]

\* compressed_renders[name] as the density notebook computes it from the
\* renders of the kernels.
CompressedOf(kernels, name) ==
  LET renders == [x \in PitcherNames |-> Render(kernels[x])]
      first == renders[CHOOSE x \in PitcherNames : TRUE]
      retained == RetainedVoxels(MaximaOver(first, renders, PitcherNames))
  IN [name |-> name, vec |-> BoolIndex(ReshapeGrid(renders[name]), retained)]

StoredCompressed(name) == CompressedOf(PlainKernel, name)

StoredQuantiles(name) ==
  [name |-> name,
   vec |-> QuantileVector(IF name = "p1"
                          THEN <<[o |-> 1, v |-> <<1, 0, 2>>], [o |-> 2, v |-> <<3, 1, 2>>]>>
                          ELSE <<[o |-> 3, v |-> <<2, 2, 0>>], [o |-> 6, v |-> <<0, 1, 1>>]>>)]

\* (quantile_array - mean(axis=0)) / std(axis=0): row i is the stored vector
\* of pitchers[i], every column standardised over the rows.  With n rows, the
\* entry (x - mean)/std is kept as num = n*x - sum, den2 = n*sumsq - sum^2,
\* standing for num/sqrt(den2); den2 = 0 is a division by zero.
QuantileArray(quantiles, pitchers) ==
  LET rows == [i \in 1..Len(pitchers) |-> quantiles[pitchers[i]]]
      n == Len(rows)
      sum(k) == SumSeq([i \in 1..n |-> rows[i].vec[k]])
      sumsq(k) == SumSeq([i \in 1..n |-> rows[i].vec[k] * rows[i].vec[k]])
  IN [i \in 1..n |->
        [name |-> rows[i].name,
         vec |-> [k \in 1..Len(rows[i].vec) |->
                    [num |-> n * rows[i].vec[k] - sum(k),
                     den2 |-> n * sumsq(k) - sum(k) * sum(k)]]]]

\* [1000], the voxels of a render of 10 x 10 x 10, at the resolution of the
\* model's renders.
FullSize == Res * Res * Res

\* [322], the voxels the compression retained of the renders the notebooks
\* were written with; here, the voxels retained of the renders of PlainKernel.
CompressedSize == 4

\* An attach_density that takes the density block off the data when the type
\* is none of the three.
AttachDensity_Detach(data, density_type, arrays) ==
  CASE density_type = "full" ->
         [data |-> [data EXCEPT !.pitch_density = arrays.full], density_size |-> <<FullSize>>]
    [] density_type = "compressed" ->
         [data |-> [data EXCEPT !.pitch_density = arrays.compressed],
          density_size |-> <<CompressedSize>>]
    [] density_type = "quantile" ->
         [data |-> [data EXCEPT !.pitch_density = arrays.quantile], density_size |-> <<21>>]
    [] OTHER -> [data |-> [data EXCEPT !.pitch_density = None], density_size |-> None]

\* attach_density(data, density_type): the data object with the array of the
\* type attached, and the density_size of the type.
AttachDensity(data, density_type, arrays) ==
  CASE density_type = "full" ->
         [data |-> [data EXCEPT !.pitch_density = arrays.full], density_size |-> <<FullSize>>]
    [] density_type = "compressed" ->
         [data |-> [data EXCEPT !.pitch_density = arrays.compressed],
          density_size |-> <<CompressedSize>>]
    [] density_type = "quantile" ->
         [data |-> [data EXCEPT !.pitch_density = arrays.quantile], density_size |-> <<21>>]
    [] OTHER -> [data |-> data, density_size |-> None]

\* A seed read off the clock, another in every run.
RandomSeed_Clock == IF run = 1 THEN SplitSeed ELSE FinalSeed

\* The seed split_data shuffles with when called as split_data(data).
RandomSeed == SplitSeed

\* split_data(data): data shuffled in place, the three splits cut off it in
\* the proportions 60/20/20 and scaled by the scaler fit on the train rows.
\* StandardScaler raises on a matrix without rows (ok is then false).
SplitData(data, g, random_seed) ==
  LET n == NumObservations(data)
      shuffled == Shuffle(data, g, random_seed)
      train == SplitOff(shuffled, TrainIndices(n))
      valid == SplitOff(shuffled, ValidIndices(n))
      test == SplitOff(shuffled, TestIndices(n))
      fits == NumObservations(train) > 0 /\ NumObservations(valid) > 0
                /\ NumObservations(test) > 0
      s == StandardScalerFit(train.pitch_data)
      scaled(d) == [d EXCEPT !.pitch_data = StandardScalerTransform(s, d.pitch_data)]
  IN [data |-> shuffled,
      ok |-> fits,
      train |-> IF fits THEN scaled(train) ELSE train,
      valid |-> IF fits THEN scaled(valid) ELSE valid,
      test |-> IF fits THEN scaled(test) ELSE test]

\* model.train(train_data, valid_data, train_steps, print_every), start to
\* return.
RECURSIVE Train(_, _, _, _)
Train(model, train_steps, print_every, from) ==
  IF model.batch >= train_steps THEN [model EXCEPT !.status = "trained"]
  ELSE Train(TrainBatchOn(model, print_every, from), train_steps, print_every, from)

InitEval ==
  /\ raw \in {EvalFile(n) : n \in 5..MaxEvalRows}
  /\ \E g \in Generators(Len(raw)) :
       gen = [seed \in {SplitSeed, FinalSeed} |->
                IF seed = SplitSeed THEN g ELSE [rot |-> 1, rev |-> FALSE]]
  /\ pc = "eval_prep"
  /\ pitch_data = FromDict(raw)
  /\ compressed_density = [name \in PitcherNames |-> StoredCompressed(name)]
  /\ train_indices = <<>> /\ valid_indices = <<>> /\ test_indices = <<>>
  /\ train_data = None /\ valid_data = None /\ test_data = None
  /\ scaler = NotFitted /\ alt_scaler = NotFitted
  /\ KdeIdle
  /\ ret = None /\ last = NoCall
  /\ ModelsIdle
  /\ BootIdle
  /\ train_args = [short |-> 2, long |-> 2, every |-> 1]
  /\ log_from = 0
  /\ stored_density = [full |-> [name \in PitcherNames |-> StoredFull(name)],
                       quantile |-> [name \in PitcherNames |-> StoredQuantiles(name)]]
  /\ density_arrays = None
  /\ eval_calls = <<>>
  /\ run = 1
  /\ eval_results = <<>>
  /\ summary = None

\* The variables the evaluate_parameters calls leave alone.
besideEval == <<raw, gen, trainVars, ret, last, kdeVars, modelVars, bootVars, stored_density,
                eval_results, summary>>

\* "Prep the main pitch data"
EvalPrepData ==
  /\ pc = "eval_prep"
  /\ pitch_data' = PrepMainData(pitch_data)
  /\ pc' = "eval_arrays"
  /\ UNCHANGED <<besideEval, density_arrays, eval_calls, run>>

\* "Load the three types of density arrays we'll be evaluating"
EvalDensityArrays ==
  /\ pc = "eval_arrays"
  /\ density_arrays' =
       [full |-> DensityArray(stored_density.full, pitch_data.pitchers),
        compressed |-> DensityArray(compressed_density, pitch_data.pitchers),
        quantile |-> QuantileArray(stored_density.quantile, pitch_data.pitchers)]
  /\ pc' = "eval_ready"
  /\ UNCHANGED <<besideEval, pitch_data, eval_calls, run>>

\* One call evaluate_parameters(pitch_data, ...): the density attached, the
\* data split, a model trained on the splits; the call returns the fit log.
\* When split_data raises, so does the call, and the run stops.
EvaluateParameters ==
  /\ pc = "eval_ready"
  /\ Len(eval_calls) < MaxEvalCalls
  /\ \E density_type \in DensityTypes :
       LET attached == AttachDensity(pitch_data, density_type, density_arrays)
           split == SplitData(attached.data, gen, RandomSeed)
           model == Train(NewModel("model"), train_args.short, train_args.every, log_from)
       IN /\ pitch_data' = split.data
          /\ IF split.ok
             THEN /\ eval_calls' =
                       Append(eval_calls,
                              [run |-> run,
                               first |-> \A i \in 1..Len(eval_calls) : eval_calls[i].run # run,
                               density_type |-> density_type,
                               density_size |-> attached.density_size,
                               train_data |-> split.train,
                               valid_data |-> split.valid,
                               test_data |-> split.test,
                               fit_log |-> model.fit_log])
                  /\ pc' = "eval_ready"
             ELSE /\ eval_calls' = eval_calls
                  /\ pc' = "eval_error"
  /\ UNCHANGED <<besideEval, density_arrays, run>>

\* The notebook is run again from the top in a fresh kernel.
EvalRunAgain ==
  /\ pc = "eval_ready"
  /\ run < MaxRuns
  /\ run' = run + 1
  /\ pitch_data' = FromDict(raw)
  /\ density_arrays' = None
  /\ pc' = "eval_prep"
  /\ UNCHANGED <<besideEval, eval_calls>>

NextEval ==
  \/ EvalPrepData
  \/ EvalDensityArrays
  \/ EvaluateParameters
  \/ EvalRunAgain

SpecEval == InitEval /\ [][NextEval]_vars

\* The pitches of a data set, row by row.
RowsOf(d) == [i \in 1..NumObservations(d) |-> d.pitch_data[i].o]

C18_SamePartitionEveryCall ==
  \A i, j \in 1..Len(eval_calls) :
    eval_calls[i].run = eval_calls[j].run =>
      /\ Range(RowsOf(eval_calls[i].train_data)) = Range(RowsOf(eval_calls[j].train_data))
      /\ Range(RowsOf(eval_calls[i].valid_data)) = Range(RowsOf(eval_calls[j].valid_data))
      /\ Range(RowsOf(eval_calls[i].test_data)) = Range(RowsOf(eval_calls[j].test_data))

\* A density block is an array or None, values TLC does not compare with =;
\* two blocks are the same when they are written the same.
SameDensity(a, b) == ToString(a) = ToString(b)

\* The density block that was on pitch_data when call j was made: that of
\* the call before it in the same run, none in a run's first call.
AttachedBefore(j) ==
  IF eval_calls[j].first THEN None ELSE eval_calls[j - 1].train_data.pitch_density

\* C24: a call with a density_type that is none of the three gets
\* density_size None and trains on the density block the call before it left
\* on pitch_data (none, in a run's first call); a call with one of the three
\* types attaches the array of its type; the block of the last call stays on
\* pitch_data itself.
C24_DensityStaysAttached ==
  /\ \A j \in 1..Len(eval_calls) :
       LET call == eval_calls[j]
       IN /\ SameDensity(call.valid_data.pitch_density, call.train_data.pitch_density)
          /\ SameDensity(call.test_data.pitch_density, call.train_data.pitch_density)
          /\ IF call.density_type \in {"full", "compressed", "quantile"}
             THEN /\ ~SameDensity(call.density_size, None)
                  /\ ~SameDensity(call.train_data.pitch_density, None)
             ELSE /\ SameDensity(call.density_size, None)
                  /\ SameDensity(call.train_data.pitch_density, AttachedBefore(j))
  /\ (pc = "eval_ready" /\ Len(eval_calls) > 0 /\ eval_calls[Len(eval_calls)].run = run) =>
       SameDensity(pitch_data.pitch_density,
                   eval_calls[Len(eval_calls)].train_data.pitch_density)

\* A call of type "none" that follows a call of type "compressed" in its run
\* and is followed by a call of type "quantile".
C24_Witness ==
  \E j \in 2..(Len(eval_calls) - 1) :
    /\ eval_calls[j].density_type = "none"
    /\ ~eval_calls[j].first
    /\ eval_calls[j - 1].density_type = "compressed"
    /\ ~SameDensity(eval_calls[j].train_data.pitch_density, None)
    /\ eval_calls[j + 1].density_type = "quantile"
    /\ eval_calls[j + 1].run = eval_calls[j].run

(***************************************************************************)
(* print_summary, applied to dictionaries of evaluation runs.  A           *)
(* dictionary is kept as the sequence of its items in insertion order, the *)
(* order eval_results.items() yields them in; an item is a name, the fit   *)
(* log and the fit time evaluate_parameters returned.                      *)
(***************************************************************************)

\* The longest fit log, the highest validation score and the longest fit
\* time of the dictionaries summarised.
MaxLogLen == 2
MaxScore == 2
MaxFitTime == 2

\* The keys of a dictionary of runs in the order of the dictionary display,
\* and the same keys in the order of Python's string comparison.
RunNames == <<"No Hidden Layer", "48-node Hidden Layer", "96-node Hidden Layer">>
RunNamesInOrder == <<"48-node Hidden Layer", "96-node Hidden Layer", "No Hidden Layer">>

\* The validation scores a fit log can hold; a run of evaluate_parameters
\* trains for at least one print_every, so a log has a first score.
FitScores == UNION {[1..n -> 1..MaxScore] : n \in 1..MaxLogLen}

\* min(scores)
Min(scores) == CHOOSE x \in Range(scores) : \A y \in Range(scores) : x <= y

\* (s, x) <= (t, y) as Python compares tuples.
PairLessEq(p, q) == p[1] < q[1] \/ (p[1] = q[1] /\ p[2] <= q[2])

\* sorted(pairs), pairs a list of 2-tuples of numbers.
RECURSIVE SortedPairs(_)
SortedPairs(pairs) ==
  IF pairs = <<>> THEN <<>>
  ELSE LET least == CHOOSE i \in 1..Len(pairs) :
                      /\ \A j \in 1..Len(pairs) : PairLessEq(pairs[i], pairs[j])
                      /\ \A j \in 1..(i - 1) : ~PairLessEq(pairs[j], pairs[i])
           rest == [k \in 1..(Len(pairs) - 1) |-> IF k < least THEN pairs[k] ELSE pairs[k + 1]]
       IN <<pairs[least]>> \o SortedPairs(rest)

\* [x for (s, x) in sorted(zip(scores, xs))]
SortedBy(scores, xs) ==
  LET sorted == SortedPairs([i \in 1..Len(xs) |-> <<scores[i], xs[i]>>])
  IN [i \in 1..Len(xs) |-> sorted[i][2]]

\* print_summary(eval_results): the rows printed, top to bottom.
PrintSummary(results) ==
  LET n == Len(results)
      eval_names == [i \in 1..n |-> IndexOf(RunNamesInOrder, results[i].name)]
      run_times == [i \in 1..n |-> results[i].fit_time]
      scores(i) == results[i].fit_log.validation_score
      last_run_scores == [i \in 1..n |-> scores(i)[Len(scores(i))]]
      min_run_scores == [i \in 1..n |-> Min(scores(i))]
      names == SortedBy(last_run_scores, eval_names)
      times == SortedBy(last_run_scores, run_times)
      mins == SortedBy(last_run_scores, min_run_scores)
      lasts == SortedBy(last_run_scores, last_run_scores)
  IN [i \in 1..n |-> [name |-> RunNamesInOrder[names[i] + 1], time |-> times[i],
                      min_score |-> mins[i], last_score |-> lasts[i]]]

InitSummary ==
  /\ raw = EvalFile(5)
  /\ gen = [seed \in {SplitSeed, FinalSeed} |-> [rot |-> 1, rev |-> FALSE]]
  /\ pc = "runs"
  /\ pitch_data = FromDict(raw)
  /\ compressed_density = [name \in PitcherNames |-> StoredCompressed(name)]
  /\ train_indices = <<>> /\ valid_indices = <<>> /\ test_indices = <<>>
  /\ train_data = None /\ valid_data = None /\ test_data = None
  /\ scaler = NotFitted /\ alt_scaler = NotFitted
  /\ KdeIdle
  /\ ret = None /\ last = NoCall
  /\ LaterIdle

\* The variables a dictionary of runs and its summary leave alone.
besideSummary == <<raw, gen, pitch_data, trainVars, ret, last, kdeVars,
                   modelVars, bootVars, stored_density, density_arrays, eval_calls, run>>

\* The next item of the dictionary display: the name bound to the fit log
\* and the fit time an evaluation returned.
EvaluateInto ==
  /\ pc = "runs"
  /\ Len(eval_results) < Len(RunNames)
  /\ \E scores \in FitScores, fit_time \in 1..MaxFitTime :
       eval_results' = Append(eval_results,
                              [name |-> RunNames[Len(eval_results) + 1],
                               fit_log |-> [validation_score |-> scores],
                               fit_time |-> fit_time])
  /\ UNCHANGED <<besideSummary, pc, summary>>

\* print_summary(eval_results)
CellPrintSummary ==
  /\ pc = "runs"
  /\ summary' = PrintSummary(eval_results)
  /\ pc' = "printed"
  /\ UNCHANGED <<besideSummary, eval_results>>

NextSummary ==
  \/ EvaluateInto
  \/ CellPrintSummary

SpecSummary == InitSummary /\ [][NextSummary]_vars

\* C19: every printed row's name, fit time, best score and last score are
\* those of one run of the dictionary, and every run has exactly one row.
C19_RowsFromOneRun ==
  pc = "printed" =>
    /\ Len(summary) = Len(eval_results)
    /\ \A e \in 1..Len(eval_results) :
         \E i \in 1..Len(summary) :
           /\ \A j \in 1..Len(summary) : summary[j].name = eval_results[e].name <=> j = i
           /\ summary[i].time = eval_results[e].fit_time
           /\ summary[i].min_score = Min(eval_results[e].fit_log.validation_score)
           /\ summary[i].last_score =
                eval_results[e].fit_log.validation_score[
                  Len(eval_results[e].fit_log.validation_score)]

(***************************************************************************)
(* attach_density, called on the prepared pitch_data with density arrays   *)
(* built from the files the density notebook writes for the renders of     *)
(* any kernels.                                                            *)
(***************************************************************************)

InitAttach ==
  /\ raw = EvalFile(6)
  /\ gen = [seed \in {SplitSeed, FinalSeed} |-> [rot |-> 1, rev |-> FALSE]]
  /\ pc = "eval_prep"
  /\ pitch_data = FromDict(raw)
  /\ kde \in [PitcherNames -> Kernels]
  /\ KdeEmpty
  /\ compressed_density = [name \in PitcherNames |-> CompressedOf(kde, name)]
  /\ train_indices = <<>> /\ valid_indices = <<>> /\ test_indices = <<>>
  /\ train_data = None /\ valid_data = None /\ test_data = None
  /\ scaler = NotFitted /\ alt_scaler = NotFitted
  /\ ret = None /\ last = NoCall
  /\ ModelsIdle
  /\ BootIdle
  /\ train_args = [short |-> 0, long |-> 0, every |-> 1]
  /\ log_from = 0
  /\ stored_density =
       [full |-> [name \in PitcherNames |->
                    [name |-> name, vec |-> ReshapeGrid(Render(kde[name]))]],
        quantile |-> [name \in PitcherNames |-> StoredQuantiles(name)]]
  /\ density_arrays = None
  /\ eval_calls = <<>>
  /\ run = 1
  /\ eval_results = <<>>
  /\ summary = None

\* data, density_size = attach_density(data, density_type), data being
\* pitch_data; the size returned is kept in ret.
CallAttachDensity ==
  /\ pc = "eval_ready"
  /\ \E density_type \in DensityTypes :
       LET attached == AttachDensity(pitch_data, density_type, density_arrays)
       IN /\ pitch_data' = attached.data
          /\ ret' = attached.density_size
          /\ last' = [op |-> "attach_density", density_type |-> density_type]
  /\ UNCHANGED <<raw, gen, trainVars, kdeVars, modelVars, bootVars, stored_density,
                 eval_results, summary, density_arrays, eval_calls, run, pc>>

NextAttach ==
  \/ EvalPrepData
  \/ EvalDensityArrays
  \/ CallAttachDensity

SpecAttach == InitAttach /\ [][NextAttach]_vars

\* The width of a density block: the length its rows have.
Widths(density) == {Len(density[i].vec) : i \in 1..Len(density)}

\* C21: the density_size attach_density returns for a recognised type is the
\* width of the block it attached.
C21_DensitySizeIsWidth ==
  (last # NoCall /\ last.density_type # "none") =>
    Widths(pitch_data.pitch_density) = {ret[1]}

====
